---- MODULE Spec2Model ----
(***************************************************************************)
(* Model of the Codex custom tool of pi-mono                               *)
(* (packages/coding-agent/examples/custom-tools/codex-experimental).       *)
(*                                                                         *)
(* One invocation of execute() is modelled as a state machine: the closure *)
(* variables of execute (events, lastMessage, settled, buffer, stderr),    *)
(* the abort signal with its listener, the escalation timer, the spawned   *)
(* child process as node:child_process presents it, and the promise.       *)
(* Text values are sequences of string tokens, so that concatenation is \o *)
(* and the empty string is <<>>.  onUpdate is taken to be supplied.        *)
(***************************************************************************)
EXTENDS Integers, Sequences, FiniteSets, TLC

VARIABLES
    pc,           \* "idle" before execute() is called, "started" after
    hasSignal,    \* whether the optional AbortSignal was passed
    aborted,      \* signal.aborted
    listening,    \* onAbort is registered on the signal
    addCount,     \* number of addEventListener calls
    abortCalls,   \* number of times onAbort ran
    spawnCount,   \* number of spawn() calls
    proc,         \* "none" | "spawnfail" | "alive" | "exited" | "closed"
    failCode,     \* errno name of a failed spawn, or "" when it succeeded
    exitCode,     \* child.exitCode: Null or <<n>>
    killed,       \* child.killed
    kills,        \* signals passed to child.kill(), in call order
    delivered,    \* signals the operating system accepted for the child
    timer,        \* "none" | "pending" | "fired" : the setTimeout of onAbort
    settled,      \* the guard flag of safeResolve/safeReject
    resolved,     \* values passed to the promise's resolve, in order
    rejected,     \* error messages passed to the promise's reject, in order
    attempts,     \* number of safeResolve/safeReject invocations
    buffer,       \* incomplete trailing stdout line
    stderr,       \* accumulated stderr text
    events,       \* parsed events
    lastMessage,  \* latest agent message text
    updates,      \* arguments of the onUpdate calls, in order
    pendingOut,   \* bytes the child wrote to stdout, not yet delivered
    writes,       \* number of writes the child made (stdout and stderr)
    written,      \* all bytes the child wrote to stdout, in order
    received,     \* all text the stdout handler received, in order
    uncaught,     \* number of exceptions that escaped a handler
    params,       \* the params argument of execute()
    args,         \* the argument list passed to spawn()
    plain,        \* the closure of the tool of codex/index.ts, run alongside
    hdr,          \* a headers object and the calls of applyCodexHeaders on it
    disk,         \* what the credential path holds
    tmp,          \* what the temporary path of each caller holds
    call          \* the locals of each caller of a credential function

toolVars == <<pc, hasSignal, aborted, listening, addCount, abortCalls, spawnCount,
          proc, failCode, exitCode, killed, kills, delivered, timer, settled,
          resolved, rejected, attempts, buffer, stderr, events, lastMessage,
          updates, pendingOut, writes, written, received, uncaught, params,
          args, plain, hdr>>

credVars == <<disk, tmp, call>>

vars == <<toolVars, credVars>>

----------------------------------------------------------------------------
(* Bounds of the model *)

\* number of writes the child makes, stdout and stderr together
MaxWrites == 2

\* number of lines the child writes in a run of whole lines
MaxLines == 3

\* number of times applyCodexHeaders is applied to a headers object
MaxApplies == 2

----------------------------------------------------------------------------
(* Values *)

\* null exit code (process ended by a signal) and the absent optional field
Null == <<>>
Undefined == <<"<undefined>">>
Str(t) == <<t>>

\* the JSON documents of the model, written on stdout as "{" followed by a
\* body character, or by the two bytes of the character U+00E9 for an agent
\* message with that text
Bodies == {"1", "2", "0", "t", "u"}

\* what the child writes on stdout in one write
LineTexts ==
    {<<"{", b>> : b \in Bodies} \cup {<<"{">>, <<" ">>, <<"{", "0xC3", "0xA9">>}

\* the lines the child may leave without newline at the end of a write
Fragments == {<<"{", "2">>, <<"{">>, <<"{", "0xC3", "0xA9">>}

OutWrites == {l \o <<"\n">> : l \in LineTexts} \cup Fragments

\* what the child writes on stderr in one write
ErrWrites == {<<"e">>, <<"f">>}

\* exit codes of a process that ran: a status, or null when a signal ended it
ExitCodes == {<<0>>, <<1>>, Null}

\* errno of a failed spawn that node reports through the 'error' event
SpawnErrnos == {"ENOENT", "EACCES", "EAGAIN"}

Errno(name) ==
    CASE name = "ENOENT" -> 2
      [] name = "EACCES" -> 13
      [] name = "EAGAIN" -> 11
      [] OTHER -> 1

\* outcomes of signalling a live child: accepted, or refused (EPERM)
KillResults == {"ok", "eperm"}

----------------------------------------------------------------------------
(* String functions *)

\* Buffer.prototype.toString("utf8") of one chunk: a complete two-byte
\* sequence is its character, a lead byte or a continuation byte on its own
\* is the replacement character
RECURSIVE toString(_)
toString(bytes) ==
    IF bytes = <<>> THEN <<>>
    ELSE IF Head(bytes) = "0xC3" /\ Len(bytes) >= 2 /\ bytes[2] = "0xA9"
    THEN <<"U+00E9">> \o toString(Tail(Tail(bytes)))
    ELSE IF Head(bytes) \in {"0xC3", "0xA9"}
    THEN <<"U+FFFD">> \o toString(Tail(bytes))
    ELSE <<Head(bytes)>> \o toString(Tail(bytes))

IsWhitespace(c) == c \in {" ", "\n"}

RECURSIVE trimStart(_)
trimStart(s) ==
    IF s # <<>> /\ IsWhitespace(Head(s)) THEN trimStart(Tail(s)) ELSE s

RECURSIVE trimEnd(_)
trimEnd(s) ==
    IF s # <<>> /\ IsWhitespace(s[Len(s)])
    THEN trimEnd(SubSeq(s, 1, Len(s) - 1))
    ELSE s

trim(s) == trimEnd(trimStart(s))

RECURSIVE split(_)
split(s) ==
    IF \E i \in 1..Len(s) : s[i] = "\n"
    THEN LET i == CHOOSE k \in 1..Len(s) :
                     s[k] = "\n" /\ \A j \in 1..(k - 1) : s[j] # "\n"
         IN  <<SubSeq(s, 1, i - 1)>> \o split(SubSeq(s, i + 1, Len(s)))
    ELSE <<s>>

Digit(d) ==
    CASE d = 0 -> "0" [] d = 1 -> "1" [] d = 2 -> "2" [] d = 3 -> "3"
      [] d = 4 -> "4" [] d = 5 -> "5" [] d = 6 -> "6" [] d = 7 -> "7"
      [] d = 8 -> "8" [] d = 9 -> "9"

RECURSIVE Decimal(_)
Decimal(n) ==
    IF n < 10 THEN <<Digit(n)>> ELSE Decimal(n \div 10) \o <<Digit(n % 10)>>

\* `${code}` of the template literals
CodeText(code) ==
    IF code = Null THEN <<"null">>
    ELSE IF code[1] < 0 THEN <<"-">> \o Decimal(0 - code[1])
    ELSE Decimal(code[1])

\* a || b on strings
OrElse(a, b) == IF a # <<>> THEN a ELSE b

----------------------------------------------------------------------------
(* Events *)

\* the event a JSON document denotes
Doc(b) ==
    CASE b = "1" -> [type |-> "item.completed", hasItem |-> TRUE,
                     itemType |-> "agent_message", text |-> Str("m1")]
      [] b = "2" -> [type |-> "item.completed", hasItem |-> TRUE,
                     itemType |-> "agent_message", text |-> Str("m2")]
      [] b = "0" -> [type |-> "item.completed", hasItem |-> TRUE,
                     itemType |-> "agent_message", text |-> <<>>]
      [] b = "t" -> [type |-> "turn.started", hasItem |-> FALSE,
                     itemType |-> "", text |-> <<>>]
      [] b = "u" -> [type |-> "item.completed", hasItem |-> FALSE,
                     itemType |-> "", text |-> <<>>]

\* JSON.parse: <<event>>, or <<>> when it throws
JSONparse(s) ==
    LET t == trim(s)
    IN  IF Len(t) = 2 /\ t[1] = "{" /\ t[2] \in Bodies
        THEN <<Doc(t[2])>>
        ELSE IF /\ Len(t) >= 2
                /\ t[1] = "{"
                /\ \A i \in 2..Len(t) : t[i] \in {"U+00E9", "U+FFFD"}
        THEN <<[type |-> "item.completed", hasItem |-> TRUE,
                itemType |-> "agent_message", text |-> Tail(t)]>>
        ELSE <<>>

\* formatEventForDisplay throws on an item event without item
formatThrows(event) ==
    event.type \in {"item.started", "item.completed"} /\ ~event.hasItem

formatEventForDisplay(event) ==
    CASE event.type = "thread.started" -> Str("[starting]")
      [] event.type = "turn.started" -> Str("[turn started]")
      [] event.type = "item.completed" /\ event.itemType = "agent_message" ->
            Str("[message] ") \o event.text
      [] OTHER -> Str("[") \o Str(event.type) \o Str("]")

----------------------------------------------------------------------------
(* The closure state of one execute() call, as a record, so that a handler  *)
(* is a function from state to state and handlers can call one another.    *)

Cur ==
    [pc |-> pc, hasSignal |-> hasSignal, aborted |-> aborted,
     listening |-> listening, addCount |-> addCount,
     abortCalls |-> abortCalls, spawnCount |-> spawnCount, proc |-> proc,
     failCode |-> failCode, exitCode |-> exitCode, killed |-> killed,
     kills |-> kills, delivered |-> delivered, timer |-> timer,
     settled |-> settled, resolved |-> resolved, rejected |-> rejected,
     attempts |-> attempts, buffer |-> buffer, stderr |-> stderr,
     events |-> events, lastMessage |-> lastMessage, updates |-> updates,
     pendingOut |-> pendingOut, writes |-> writes, written |-> written,
     received |-> received, uncaught |-> uncaught, params |-> params,
     args |-> args]

\* (the handlers' results s and p are computed once, then assigned)
CommitBoth(s, p) ==
    \E t \in {s}, q \in {p} :
        /\ pc' = t.pc
        /\ hasSignal' = t.hasSignal
        /\ aborted' = t.aborted
        /\ listening' = t.listening
        /\ addCount' = t.addCount
        /\ abortCalls' = t.abortCalls
        /\ spawnCount' = t.spawnCount
        /\ proc' = t.proc
        /\ failCode' = t.failCode
        /\ exitCode' = t.exitCode
        /\ killed' = t.killed
        /\ kills' = t.kills
        /\ delivered' = t.delivered
        /\ timer' = t.timer
        /\ settled' = t.settled
        /\ resolved' = t.resolved
        /\ rejected' = t.rejected
        /\ attempts' = t.attempts
        /\ buffer' = t.buffer
        /\ stderr' = t.stderr
        /\ events' = t.events
        /\ lastMessage' = t.lastMessage
        /\ updates' = t.updates
        /\ pendingOut' = t.pendingOut
        /\ writes' = t.writes
        /\ written' = t.written
        /\ received' = t.received
        /\ uncaught' = t.uncaught
        /\ params' = t.params
        /\ args' = t.args
        /\ plain' = q
        /\ hdr' = hdr
        /\ UNCHANGED credVars

\* a step of the tool of codex-experimental/index.ts on its own
Commit(s) == CommitBoth(s, plain)

----------------------------------------------------------------------------
(* Settlement *)

\* safeResolve without the settled guard
safeResolveUnguarded(s, value) ==
    [s EXCEPT !.settled = TRUE,
              !.resolved = Append(@, value),
              !.attempts = @ + 1]

safeResolve(s, value) ==
    IF ~s.settled
    THEN [s EXCEPT !.settled = TRUE,
                   !.resolved = Append(@, value),
                   !.attempts = @ + 1]
    ELSE [s EXCEPT !.attempts = @ + 1]

safeReject(s, error) ==
    IF ~s.settled
    THEN [s EXCEPT !.settled = TRUE,
                   !.rejected = Append(@, error),
                   !.attempts = @ + 1]
    ELSE [s EXCEPT !.attempts = @ + 1]

\* signal.removeEventListener("abort", onAbort), under `if (signal)`
removeAbortListener(s) ==
    IF s.hasSignal THEN [s EXCEPT !.listening = FALSE] ELSE s

----------------------------------------------------------------------------
(* child.on("error") *)

\* err.message of the error node emits
ErrMessage(code) ==
    IF code = "EPERM" THEN <<"kill ", code>> ELSE <<"spawn codex ", code>>

\* one message for every failure
errorMessageGeneric(code) ==
    Str("Failed to spawn Codex: ") \o ErrMessage(code)
        \o Str(". Is Codex CLI installed?")

errorMessage(code) ==
    IF code = "ENOENT"
    THEN Str("Codex CLI not found. Install with: npm install -g @openai/codex")
    ELSE IF code = "EACCES"
    THEN Str("Permission denied running Codex CLI: ") \o ErrMessage(code)
    ELSE Str("Failed to spawn Codex: ") \o ErrMessage(code)

\* the error handler without the listener cleanup
onErrorKeepListener(s, code) ==
    safeReject(s, errorMessage(code))

onError(s, code) ==
    safeReject(removeAbortListener(s), errorMessage(code))

----------------------------------------------------------------------------
(* Cancellation *)

\* child.kill(sig) of node:child_process.  With a live handle the signal is
\* either accepted, which sets child.killed, or refused, which emits 'error'
\* synchronously; without one (spawn failed, or the process has exited)
\* nothing is sent and child.killed is left alone.
kill(s, sig, r) ==
    LET s1 == [s EXCEPT !.kills = Append(@, sig)]
    IN  IF s.proc = "alive"
        THEN IF r = "ok"
             THEN [s1 EXCEPT !.killed = TRUE, !.delivered = @ \cup {sig}]
             ELSE onError(s1, "EPERM")
        ELSE s1

\* the callback of setTimeout(..., 2000)
onTimeout(s, r) ==
    IF s.proc # "none" /\ ~s.killed THEN kill(s, "SIGKILL", r) ELSE s

onAbort(s, r) ==
    LET s1 == [s EXCEPT !.abortCalls = @ + 1]
    IN  IF s1.proc # "none" /\ ~s1.killed
        THEN [kill(s1, "SIGTERM", r) EXCEPT !.timer = "pending"]
        ELSE s1

\* the signal fires 'abort': aborted becomes true and the listener, which
\* was registered with { once: true }, is removed before it runs
fireAbort(s, r) ==
    LET s1 == [s EXCEPT !.aborted = TRUE]
    IN  IF s1.listening
        THEN onAbort([s1 EXCEPT !.listening = FALSE], r)
        ELSE s1

----------------------------------------------------------------------------
(* Streaming *)

\* the first message is kept instead of the last
extractMessageFirst(last, event) ==
    IF /\ event.type = "item.completed"
       /\ event.hasItem
       /\ event.itemType = "agent_message"
       /\ event.text # <<>>
       /\ last = <<>>
    THEN event.text
    ELSE last

\* an agent message without text replaces the message too
extractMessageAnyText(last, event) ==
    IF /\ event.type = "item.completed"
       /\ event.hasItem
       /\ event.itemType = "agent_message"
    THEN event.text
    ELSE last

\* lastMessage after an event was parsed
extractMessage(last, event) ==
    IF /\ event.type = "item.completed"
       /\ event.hasItem
       /\ event.itemType = "agent_message"
       /\ event.text # <<>>
    THEN event.text
    ELSE last

\* the events array itself is handed to the consumer
progressUpdateLive(s, event) ==
    [content |-> formatEventForDisplay(event),
     events |-> s.events,
     live |-> TRUE,
     exitCode |-> Null,
     streaming |-> TRUE,
     lastMessage |-> s.lastMessage]

\* the argument of onUpdate.  `live` tells whether the events field is the
\* events array itself (a later push shows through it) or a copy of it.
progressUpdate(s, event) ==
    [content |-> formatEventForDisplay(event),
     events |-> s.events,
     live |-> FALSE,
     exitCode |-> Null,
     streaming |-> TRUE,
     lastMessage |-> s.lastMessage]

\* the body of the for loop of the stdout handler, for one line
processLine(s, line) ==
    IF trim(line) = <<>>
    THEN s
    ELSE LET parsed == JSONparse(line)
         IN  IF parsed = <<>>
             THEN s
             ELSE LET event == parsed[1]
                      s1 == [s EXCEPT
                               !.events = Append(@, event),
                               !.lastMessage = extractMessage(@, event)]
                  IN  IF formatThrows(event)
                      THEN s1
                      ELSE [s1 EXCEPT
                              !.updates = Append(@, progressUpdate(s1, event))]

RECURSIVE processLines(_, _)
processLines(s, lines) ==
    IF lines = <<>>
    THEN s
    ELSE processLines(processLine(s, Head(lines)), Tail(lines))

\* the chunk is split without the leftover of the previous chunk
onStdoutDataNoBuffer(s, data) ==
    LET text == toString(data)
        lines == split(text)
        n == Len(lines)
    IN  processLines([s EXCEPT !.buffer = lines[n],
                               !.received = @ \o text],
                     SubSeq(lines, 1, n - 1))

\* child.stdout.on("data")
onStdoutData(s, data) ==
    LET text == toString(data)
        lines == split(s.buffer \o text)
        n == Len(lines)
    IN  processLines([s EXCEPT !.buffer = lines[n],
                               !.received = @ \o text],
                     SubSeq(lines, 1, n - 1))

\* child.stderr.on("data")
onStderrData(s, data) == [s EXCEPT !.stderr = @ \o data]

----------------------------------------------------------------------------
(* child.on("close") *)

\* the leftover event is pushed without looking at its message
flushBufferKeepMessage(s) ==
    IF trim(s.buffer) # <<>> /\ JSONparse(s.buffer) # <<>>
    THEN [s EXCEPT !.events = Append(@, JSONparse(s.buffer)[1])]
    ELSE s

\* the leftover is dropped
flushBufferDropped(s) == s

\* the leftover buffer is parsed as one last line, without progress update
flushBuffer(s) ==
    IF trim(s.buffer) # <<>> /\ JSONparse(s.buffer) # <<>>
    THEN LET event == JSONparse(s.buffer)[1]
         IN  [s EXCEPT !.events = Append(@, event),
                       !.lastMessage = extractMessage(@, event)]
    ELSE s

wasAborted(s) == s.hasSignal /\ s.aborted

hasError(code) == code # <<0>> /\ code # Null

\* the failure text without the captured message
resultTextNoOutput(s, code) ==
    IF wasAborted(s)
    THEN Str("Codex execution aborted.\n\nPartial output:\n")
            \o OrElse(s.lastMessage, Str("(no output)"))
    ELSE IF hasError(code)
    THEN Str("Codex exited with code ") \o CodeText(code)
            \o Str(".\n\nStderr:\n") \o OrElse(s.stderr, Str("(no stderr)"))
    ELSE OrElse(s.lastMessage, Str("(Codex completed with no message output)"))

resultText(s, code) ==
    IF wasAborted(s)
    THEN Str("Codex execution aborted.\n\nPartial output:\n")
            \o OrElse(s.lastMessage, Str("(no output)"))
    ELSE IF hasError(code)
    THEN Str("Codex exited with code ") \o CodeText(code)
            \o Str(".\n\nStderr:\n") \o OrElse(s.stderr, Str("(no stderr)"))
            \o Str("\n\nOutput:\n") \o OrElse(s.lastMessage, Str("(no output)"))
    ELSE OrElse(s.lastMessage, Str("(Codex completed with no message output)"))

\* the exit code is looked at before the abort flag
resultErrorExitFirst(s, code) ==
    IF hasError(code) THEN s.stderr
    ELSE IF wasAborted(s) THEN Str("aborted")
    ELSE Undefined

resultError(s, code) ==
    IF wasAborted(s) THEN Str("aborted")
    ELSE IF hasError(code) THEN s.stderr
    ELSE Undefined

onClose(s, code) ==
    LET s1 == flushBuffer(removeAbortListener(s))
    IN  safeResolve(s1,
            [content |-> resultText(s1, code),
             events |-> s1.events,
             live |-> TRUE,
             exitCode |-> code,
             streaming |-> FALSE,
             lastMessage |-> s1.lastMessage,
             error |-> resultError(s1, code)])

----------------------------------------------------------------------------
(* renderResult *)

\* the leading tag of the text renderResult builds for a result: the
\* streaming branch, the error branch or the success branch
renderResult(result, isError) ==
    IF result.streaming
    THEN Str("[running] ")
    ELSE IF isError \/ (result.error # Undefined /\ result.error # <<>>)
    THEN Str("[error] Codex: ")
    ELSE Str("[ok] ")

----------------------------------------------------------------------------
(* execute *)

abortedBeforeStart ==
    [content |-> Str("Codex execution aborted before start."),
     events |-> <<>>,
     live |-> FALSE,
     exitCode |-> Null,
     streaming |-> FALSE,
     lastMessage |-> Undefined,
     error |-> Str("aborted")]

\* an optional parameter that was not passed
Absent == "<absent>"

\* the command line with --full-auto for every request
buildArgsFullAuto(p) ==
    <<"exec", "--json", "--full-auto">>
      \o (IF p.model \notin {Absent, ""} THEN <<"-m", p.model>> ELSE <<>>)
      \o (IF p.sandbox \notin {Absent, ""} THEN <<"-s", p.sandbox>> ELSE <<>>)
      \o <<p.prompt>>

\* the command line: args of execute
buildArgs(p) ==
    LET sandboxMode == IF p.sandbox \in {Absent, ""} THEN "read-only"
                                                     ELSE p.sandbox
    IN  <<"exec", "--json">>
          \o (IF sandboxMode = "workspace-write"
              THEN <<"--full-auto", "-s", "workspace-write">>
              ELSE <<"-s", "read-only">>)
          \o (IF p.model \notin {Absent, ""} THEN <<"-m", p.model>> ELSE <<>>)
          \o <<p.prompt>>

\* spawn("codex", args, ...): the child runs, or the spawn fails with an
\* errno that node reports later through 'error'
spawn(s, sp) ==
    [s EXCEPT !.spawnCount = @ + 1,
              !.args = buildArgs(s.params),
              !.proc = IF sp = "ok" THEN "alive" ELSE "spawnfail",
              !.failCode = IF sp = "ok" THEN "" ELSE sp]

addAbortListener(s) ==
    IF s.hasSignal
    THEN [s EXCEPT !.listening = TRUE, !.addCount = @ + 1]
    ELSE s

\* the executor without the check for an aborted signal
executeNoAbortCheck(s, sp) ==
    addAbortListener(spawn([s EXCEPT !.pc = "started"], sp))

\* the promise executor
execute(s, sp) ==
    LET s0 == [s EXCEPT !.pc = "started"]
    IN  IF s0.hasSignal /\ s0.aborted
        THEN safeResolve(s0, abortedBeforeStart)
        ELSE addAbortListener(spawn(s0, sp))

----------------------------------------------------------------------------
(* The tool of codex/index.ts: the same closure without the settled flag.  *)
(* Its record has the fields of Cur; settled is the state of the promise   *)
(* itself, resolved and rejected are the settlements the promise took.     *)

\* a later call settles the promise again
resolveOverwrites(s, value) ==
    [s EXCEPT !.settled = TRUE,
              !.resolved = Append(@, value),
              !.attempts = @ + 1]

\* the resolve function of new Promise: the first call of resolve or reject
\* settles the promise, every later call is ignored
resolve(s, value) ==
    IF ~s.settled
    THEN [s EXCEPT !.settled = TRUE,
                   !.resolved = Append(@, value),
                   !.attempts = @ + 1]
    ELSE [s EXCEPT !.attempts = @ + 1]

\* the reject function of new Promise
reject(s, error) ==
    IF ~s.settled
    THEN [s EXCEPT !.settled = TRUE,
                   !.rejected = Append(@, error),
                   !.attempts = @ + 1]
    ELSE [s EXCEPT !.attempts = @ + 1]

\* the markers are pictographs here; U+1F4AC stands for the speech balloon
plainFormatEventForDisplay(event) ==
    CASE event.type = "thread.started" -> Str("[starting]")
      [] event.type = "turn.started" -> Str("[turn started]")
      [] event.type = "item.completed" /\ event.itemType = "agent_message" ->
            Str("U+1F4AC ") \o event.text
      [] OTHER -> Str("[") \o Str(event.type) \o Str("]")

\* child.on("error")
plainOnError(s, code) ==
    reject(removeAbortListener(s),
           Str("Failed to spawn Codex: ") \o ErrMessage(code)
               \o Str(". Is Codex CLI installed?"))

plainKill(s, sig, r) ==
    LET s1 == [s EXCEPT !.kills = Append(@, sig)]
    IN  IF s.proc = "alive"
        THEN IF r = "ok"
             THEN [s1 EXCEPT !.killed = TRUE, !.delivered = @ \cup {sig}]
             ELSE plainOnError(s1, "EPERM")
        ELSE s1

plainOnTimeout(s, r) ==
    IF s.proc # "none" /\ ~s.killed THEN plainKill(s, "SIGKILL", r) ELSE s

plainOnAbort(s, r) ==
    LET s1 == [s EXCEPT !.abortCalls = @ + 1]
    IN  IF s1.proc # "none" /\ ~s1.killed
        THEN [plainKill(s1, "SIGTERM", r) EXCEPT !.timer = "pending"]
        ELSE s1

plainFireAbort(s, r) ==
    LET s1 == [s EXCEPT !.aborted = TRUE]
    IN  IF s1.listening
        THEN plainOnAbort([s1 EXCEPT !.listening = FALSE], r)
        ELSE s1

\* the body of the for loop of the stdout handler, for one line
plainProcessLine(s, line) ==
    IF trim(line) = <<>>
    THEN s
    ELSE LET parsed == JSONparse(line)
         IN  IF parsed = <<>>
             THEN s
             ELSE LET event == parsed[1]
                      s1 == [s EXCEPT
                               !.events = Append(@, event),
                               !.lastMessage =
                                  IF /\ event.type = "item.completed"
                                     /\ event.hasItem
                                     /\ event.itemType = "agent_message"
                                     /\ event.text # <<>>
                                  THEN event.text
                                  ELSE @]
                  IN  IF formatThrows(event)
                      THEN s1
                      ELSE [s1 EXCEPT !.updates = Append(@,
                              [content |-> plainFormatEventForDisplay(event),
                               events |-> s1.events,
                               live |-> FALSE,
                               exitCode |-> Null,
                               streaming |-> TRUE,
                               lastMessage |-> s1.lastMessage])]

RECURSIVE plainProcessLines(_, _)
plainProcessLines(s, lines) ==
    IF lines = <<>>
    THEN s
    ELSE plainProcessLines(plainProcessLine(s, Head(lines)), Tail(lines))

\* child.stdout.on("data")
plainOnStdoutData(s, data) ==
    LET text == toString(data)
        lines == split(s.buffer \o text)
        n == Len(lines)
    IN  plainProcessLines([s EXCEPT !.buffer = lines[n],
                                    !.received = @ \o text],
                          SubSeq(lines, 1, n - 1))

\* child.stderr.on("data")
plainOnStderrData(s, data) == [s EXCEPT !.stderr = @ \o data]

\* child.on("close")
plainOnClose(s, code) ==
    LET s0 == removeAbortListener(s)
        s1 == IF trim(s0.buffer) # <<>> /\ JSONparse(s0.buffer) # <<>>
              THEN LET event == JSONparse(s0.buffer)[1]
                   IN  [s0 EXCEPT
                           !.events = Append(@, event),
                           !.lastMessage =
                              IF /\ event.type = "item.completed"
                                 /\ event.hasItem
                                 /\ event.itemType = "agent_message"
                                 /\ event.text # <<>>
                              THEN event.text
                              ELSE @]
              ELSE s0
        aborted_ == s1.hasSignal /\ s1.aborted
        failed == code # <<0>> /\ code # Null
    IN  resolve(s1,
            [content |->
                IF aborted_
                THEN Str("Codex execution aborted.\n\nPartial output:\n")
                        \o OrElse(s1.lastMessage, Str("(no output)"))
                ELSE IF failed
                THEN Str("Codex exited with code ") \o CodeText(code)
                        \o Str(".\n\nStderr:\n")
                        \o OrElse(s1.stderr, Str("(no stderr)"))
                        \o Str("\n\nOutput:\n")
                        \o OrElse(s1.lastMessage, Str("(no output)"))
                ELSE OrElse(s1.lastMessage,
                            Str("(Codex completed with no message output)")),
             events |-> s1.events,
             live |-> TRUE,
             exitCode |-> code,
             streaming |-> FALSE,
             lastMessage |-> s1.lastMessage,
             error |-> IF aborted_ THEN Str("aborted")
                       ELSE IF failed THEN s1.stderr
                       ELSE Undefined])

\* execute: the command line and the promise executor
plainExecute(s, sp) ==
    LET s0 == [s EXCEPT !.pc = "started"]
        p == s.params
    IN  IF s0.hasSignal /\ s0.aborted
        THEN resolve(s0,
                [content |-> Str("Codex execution aborted before start."),
                 events |-> <<>>,
                 live |-> FALSE,
                 exitCode |-> Null,
                 streaming |-> FALSE,
                 lastMessage |-> Undefined,
                 error |-> Str("aborted")])
        ELSE LET s1 == [s0 EXCEPT
                          !.spawnCount = @ + 1,
                          !.args =
                             <<"exec", "--json", "--full-auto">>
                               \o (IF p.model \notin {Absent, ""}
                                   THEN <<"-m", p.model>> ELSE <<>>)
                               \o (IF p.sandbox \notin {Absent, ""}
                                   THEN <<"-s", p.sandbox>> ELSE <<>>)
                               \o <<p.prompt>>,
                          !.proc = IF sp = "ok" THEN "alive" ELSE "spawnfail",
                          !.failCode = IF sp = "ok" THEN "" ELSE sp]
             IN  IF s1.hasSignal
                 THEN [s1 EXCEPT !.listening = TRUE, !.addCount = @ + 1]
                 ELSE s1

----------------------------------------------------------------------------
(* Credential file: JSON values and the expiry decoder *)

\* refresh when the access token expires within this many seconds
DEFAULT_REFRESH_LEEWAY_SECONDS == 120

\* JSON values.  A string is a sequence of tokens, a number a fraction n/d
\* (or not finite), an object a record over the keys of the model in which
\* NoKey stands for a key the object does not have; JUndef is the in-memory
\* value undefined, which JSON.stringify leaves out.
NoKey == [t |-> "-"]
JUndef == [t |-> "u"]
JNull == [t |-> "null"]
JArr == [t |-> "a"]
JStr(s) == [t |-> "s", s |-> s]
JNum(n, d) == [t |-> "n", n |-> n, d |-> d, finite |-> TRUE]
JInf == [t |-> "n", n |-> 1, d |-> 1, finite |-> FALSE]
JObj(o) == [t |-> "o", o |-> o]

\* contents of a path that are not a JSON text: no file, a text that does
\* not parse, a file whose write is under way
NoFile == [t |-> "missing"]
Garbage == [t |-> "garbage"]
Partial == [t |-> "partial"]

\* an optional number (options, decoded expiry): <<>> when undefined
None == <<>>
Some(n) == <<n>>

\* the operator ??
Nullish(v, d) == IF v = None THEN d ELSE v[1]

isRecord(value) == value.t = "o"

\* a blank string counts as a string
getOptionalStringUntrimmed(obj, key) ==
    LET value == obj[key]
    IN  IF value.t = "s" THEN value.s ELSE Undefined

getOptionalString(obj, key) ==
    LET value == obj[key]
    IN  IF value.t = "s" /\ trim(value.s) # <<>> THEN value.s ELSE Undefined

\* String.prototype.split(".")
RECURSIVE splitDot(_)
splitDot(s) ==
    IF \E i \in 1..Len(s) : s[i] = "."
    THEN LET i == CHOOSE k \in 1..Len(s) :
                     s[k] = "." /\ \A j \in 1..(k - 1) : s[j] # "."
         IN  <<SubSeq(s, 1, i - 1)>> \o splitDot(SubSeq(s, i + 1, Len(s)))
    ELSE <<s>>

\* base64url decoding of the payload segments of the model; Buffer.from
\* never throws, a segment that is no base64 of a text decodes to noise
base64UrlDecodeToUtf8(data) ==
    CASE data = <<"eyJleHAiOjk5MH0">> -> <<"{", "\"exp\":", "990", "}">>
      [] data = <<"eyJleHAiOjEwMDB9">> -> <<"{", "\"exp\":", "1000", "}">>
      [] data = <<"eyJleHAiOjEwMTB9">> -> <<"{", "\"exp\":", "1010", "}">>
      [] data = <<"eyJleHAiOjExMjB9">> -> <<"{", "\"exp\":", "1120", "}">>
      [] data = <<"eyJleHAiOjExMjF9">> -> <<"{", "\"exp\":", "1121", "}">>
      [] data = <<"eyJleHAiOjIwMDB9">> -> <<"{", "\"exp\":", "2000", "}">>
      [] data = <<"eyJleHAiOjUwMDB9">> -> <<"{", "\"exp\":", "5000", "}">>
      [] data = <<"eyJleHAiOjExMjAuNX0">> -> <<"{", "\"exp\":", "1120.5", "}">>
      [] data = <<"eyJleHAiOjEuMDAwNH0">> ->
             <<"{", "\"exp\":", "1.0004", "}">>
      [] data = <<"eyJleHAiOjB9">> -> <<"{", "\"exp\":", "0", "}">>
      [] data = <<"eyJleHAiOi01fQ">> -> <<"{", "\"exp\":", "-5", "}">>
      [] data = <<"eyJleHAiOiIxMDEwIn0">> -> <<"{", "\"exp\":", "\"1010\"", "}">>
      [] data = <<"eyJleHAiOjFlOTk5fQ">> -> <<"{", "\"exp\":", "1e999", "}">>
      [] data = <<"e30">> -> <<"{", "}">>
      [] data = <<"W10">> -> <<"[", "]">>
      [] data = <<"MTAxMA">> -> <<"1010">>
      [] data = <<"bm90IGpzb24">> -> <<"not json">>
      [] OTHER -> <<"U+FFFD">>

\* the JSON literals of the payloads
IsLiteral(tok) ==
    tok \in {"990", "1000", "1010", "1120", "1121", "2000", "5000", "1120.5",
             "1.0004",
             "0", "-5", "\"1010\"", "1e999"}

Literal(tok) ==
    CASE tok = "990" -> JNum(990, 1)
      [] tok = "1000" -> JNum(1000, 1)
      [] tok = "1010" -> JNum(1010, 1)
      [] tok = "1120" -> JNum(1120, 1)
      [] tok = "1121" -> JNum(1121, 1)
      [] tok = "2000" -> JNum(2000, 1)
      [] tok = "5000" -> JNum(5000, 1)
      [] tok = "1120.5" -> JNum(2241, 2)
      [] tok = "1.0004" -> JNum(2501, 2500)
      [] tok = "0" -> JNum(0, 1)
      [] tok = "-5" -> JNum(0 - 5, 1)
      [] tok = "\"1010\"" -> JStr(<<"1010">>)
      [] tok = "1e999" -> JInf

\* JSON.parse of a payload text: the value, or ok = FALSE when it throws
JSONparsePayload(text) ==
    IF text = <<"{", "}">>
    THEN [ok |-> TRUE, value |-> JObj([exp |-> NoKey])]
    ELSE IF /\ Len(text) = 4
            /\ text[1] = "{" /\ text[2] = "\"exp\":" /\ text[4] = "}"
            /\ IsLiteral(text[3])
    THEN [ok |-> TRUE, value |-> JObj([exp |-> Literal(text[3])])]
    ELSE IF text = <<"[", "]">>
    THEN [ok |-> TRUE, value |-> JArr]
    ELSE IF Len(text) = 1 /\ IsLiteral(text[1])
    THEN [ok |-> TRUE, value |-> Literal(text[1])]
    ELSE [ok |-> FALSE, value |-> JUndef]

\* the number of segments is not looked at
extractJwtExpMsAnyParts(jwt) ==
    LET parts == splitDot(jwt)
    IN  IF Len(parts) < 2 THEN None
        ELSE LET payload == JSONparsePayload(base64UrlDecodeToUtf8(parts[2]))
             IN  IF ~payload.ok THEN None
                 ELSE IF ~isRecord(payload.value) THEN None
                 ELSE LET exp == payload.value.o.exp
                      IN  IF exp.t = "n" /\ exp.finite /\ exp.n > 0
                          THEN Some((exp.n * 1000) \div exp.d)
                          ELSE None

\* the expiry of a JWT in milliseconds, None when it cannot be decoded
extractJwtExpMs(jwt) ==
    LET parts == splitDot(jwt)
    IN  IF Len(parts) # 3 THEN None
        ELSE LET payloadB64 == parts[2]
             IN  IF payloadB64 = <<>> THEN None
                 ELSE LET payloadJson == base64UrlDecodeToUtf8(payloadB64)
                          payload == JSONparsePayload(payloadJson)
                      IN  IF ~payload.ok THEN None
                          ELSE IF ~isRecord(payload.value) THEN None
                          ELSE LET exp == payload.value.o.exp
                               IN  IF exp.t = "n" /\ exp.finite /\ exp.n > 0
                                   THEN Some((exp.n * 1000) \div exp.d)
                                   ELSE None

\* JSON.parse of a text that holds a document
JSONparseText(content) ==
    IF content.t \in {"garbage", "partial"}
    THEN [ok |-> FALSE, value |-> JUndef]
    ELSE [ok |-> TRUE, value |-> content]

\* readFile and JSON.parse: ok = FALSE when either throws
readJsonFile(content) ==
    IF content = NoFile
    THEN [ok |-> FALSE, value |-> JUndef]
    ELSE JSONparseText(content)

\* JSON.stringify of a document: keys whose value is undefined are left out
stringifyTokens(o) ==
    [key \in DOMAIN o |-> IF o[key] = JUndef THEN NoKey ELSE o[key]]

\* only the keys the code knows are written
JSONstringifyKnown(data) ==
    IF data.t # "o" THEN data
    ELSE JObj([key \in DOMAIN data.o |->
                  IF key = "tokens" /\ data.o[key].t = "o"
                  THEN JObj([tk \in DOMAIN data.o[key].o |->
                                IF tk \in {"access_token", "refresh_token",
                                           "id_token"}
                                THEN data.o[key].o[tk] ELSE NoKey])
                  ELSE IF key = "last_refresh" THEN data.o[key]
                  ELSE NoKey])

JSONstringify(data) ==
    IF data.t # "o" THEN data
    ELSE JObj([key \in DOMAIN data.o |->
                  IF data.o[key] = JUndef THEN NoKey
                  ELSE IF data.o[key].t = "o"
                       THEN JObj(stringifyTokens(data.o[key].o))
                       ELSE data.o[key]])

\* Date.prototype.toISOString for the instants of the model
toISOString(ms) ==
    CASE ms = 1000000 -> <<"1970-01-01T00:16:40.000Z">>
      [] ms = 1000500 -> <<"1970-01-01T00:16:40.500Z">>

----------------------------------------------------------------------------
(* Credential file: the reader and the refresher *)

\* what a call has returned so far
Pending == [t |-> "pending"]
Unavailable == [t |-> "undefined"]
Failure(message) == [t |-> "error", message |-> message]
CodexCliAuth(accessToken, refreshToken, idToken, expiresAtMs) ==
    [t |-> "auth", accessToken |-> accessToken, refreshToken |-> refreshToken,
     idToken |-> idToken, expiresAtMs |-> expiresAtMs]
CodexCliAuthReadOnly(accessToken, expiresAtMs) ==
    [t |-> "auth", accessToken |-> accessToken, expiresAtMs |-> expiresAtMs]

\* no answer of the token endpoint yet
NoResponse == [t |-> "none", ok |-> FALSE, status |-> 0, body |-> Garbage]

\* the locals of a call that has not started (response: the answer the call
\* got from the token endpoint)
NoCall ==
    [pc |-> "idle", variant |-> "", options |-> [refreshLeewaySeconds |-> None,
                                                 writeBack |-> None],
     refreshLeewaySeconds |-> 0, writeBack |-> FALSE, now |-> 0,
     content |-> NoFile, file |-> JUndef, accessToken |-> Undefined,
     refreshToken |-> Undefined, idToken |-> Undefined, expiresAtMs |-> None,
     nextAccessToken |-> Undefined, nextRefreshToken |-> Undefined,
     nextIdToken |-> Undefined, fetches |-> 0, writes |-> 0, renames |-> 0,
     response |-> NoResponse, result |-> Pending]

returns(k, value) == [k EXCEPT !.pc = "returned", !.result = value]
\* a failure goes on to the writeback
throwsAfterWriteback(k, message) == [k EXCEPT !.pc = "writeFile"]

\* a failure returns what was read
throwsStale(k, message) ==
    [k EXCEPT !.pc = "returned",
              !.result = [t |-> "auth", accessToken |-> k.accessToken,
                          refreshToken |-> k.refreshToken,
                          idToken |-> k.idToken,
                          expiresAtMs |-> k.expiresAtMs]]

throws(k, message) == [k EXCEPT !.pc = "threw", !.result = Failure(message)]

Max(a, b) == IF a >= b THEN a ELSE b

\* the clamp is left out
isExpiringSoonUnclamped(expiresAtMs, now, refreshLeewaySeconds) ==
    expiresAtMs # None /\ expiresAtMs[1] - now <= refreshLeewaySeconds * 1000

\* every token with a known expiry is refreshed
isExpiringSoonWhenKnown(expiresAtMs, now, refreshLeewaySeconds) ==
    expiresAtMs # None

isExpiringSoon(expiresAtMs, now, refreshLeewaySeconds) ==
    expiresAtMs # None
      /\ expiresAtMs[1] - now <= Max(0, refreshLeewaySeconds) * 1000

\* writeback is off unless asked for
getCodexCliAuthWriteBackOff(k, options) ==
    [k EXCEPT !.pc = "readFile",
              !.variant = "refresh",
              !.options = options,
              !.refreshLeewaySeconds =
                  Nullish(options.refreshLeewaySeconds,
                          DEFAULT_REFRESH_LEEWAY_SECONDS),
              !.writeBack = Nullish(options.writeBack, FALSE)]

\* getCodexCliAuth, refreshing variant, up to the read of the file
getCodexCliAuth(k, options) ==
    [k EXCEPT !.pc = "readFile",
              !.variant = "refresh",
              !.options = options,
              !.refreshLeewaySeconds =
                  Nullish(options.refreshLeewaySeconds,
                          DEFAULT_REFRESH_LEEWAY_SECONDS),
              !.writeBack = Nullish(options.writeBack, TRUE)]

\* ... from the read of the file to the exchange or the return
getCodexCliAuthRead(k, content, now) ==
    LET read == readJsonFile(content)
        k1 == [k EXCEPT !.content = content, !.now = now]
    IN  IF ~read.ok THEN returns(k1, Unavailable)
        ELSE IF ~isRecord(read.value) THEN returns(k1, Unavailable)
        ELSE IF ~isRecord(read.value.o.tokens) THEN returns(k1, Unavailable)
        ELSE
          LET file == read.value
              tokens == file.o.tokens
              accessToken == getOptionalString(tokens.o, "access_token")
              refreshToken == getOptionalString(tokens.o, "refresh_token")
              idToken == getOptionalString(tokens.o, "id_token")
              expiresAtMs == extractJwtExpMs(accessToken)
              k2 == [k1 EXCEPT !.file = file,
                               !.accessToken = accessToken,
                               !.refreshToken = refreshToken,
                               !.idToken = idToken]
          IN  IF accessToken = Undefined THEN returns(k2, Unavailable)
              ELSE IF /\ isExpiringSoon(expiresAtMs, now, k.refreshLeewaySeconds)
                      /\ refreshToken # Undefined
              THEN [k2 EXCEPT !.expiresAtMs = expiresAtMs,
                              !.pc = "fetch",
                              !.fetches = @ + 1]
              ELSE returns([k2 EXCEPT !.expiresAtMs = expiresAtMs],
                           CodexCliAuth(accessToken, refreshToken, idToken,
                                        expiresAtMs))

\* the answer of the token endpoint: the fetch is rejected, or there is a
\* response with a status and a body
Rejected == [t |-> "rejected", ok |-> FALSE, status |-> 0, body |-> Garbage]
Response(status, body) ==
    [t |-> "response", ok |-> status = 200, status |-> status, body |-> body]

\* refreshTokens from the answer on: the token, or ok = FALSE when it throws
\* (expires_in and token_type of the token are not used by the caller)
refreshTokens(resp) ==
    LET none == [access_token |-> Undefined, refresh_token |-> Undefined,
                 id_token |-> Undefined]
        json == JSONparseText(resp.body)
    IN  IF resp.t = "rejected"
        THEN [ok |-> FALSE, token |-> none, error |-> Str("fetch failed")]
        ELSE IF ~resp.ok
        THEN [ok |-> FALSE, token |-> none,
              error |-> Str("Codex token refresh failed (")
                          \o CodeText(<<resp.status>>) \o Str("): ")]
        ELSE IF ~json.ok
        THEN [ok |-> FALSE, token |-> none, error |-> Str("SyntaxError")]
        ELSE IF ~isRecord(json.value)
        THEN [ok |-> FALSE, token |-> none,
              error |-> Str("Codex token refresh returned non-object JSON")]
        ELSE IF getOptionalString(json.value.o, "access_token") = Undefined
        THEN [ok |-> FALSE, token |-> none,
              error |-> Str("Codex token refresh response missing access_token")]
        ELSE [ok |-> TRUE,
              token |-> [access_token |->
                             getOptionalString(json.value.o, "access_token"),
                         refresh_token |->
                             getOptionalString(json.value.o, "refresh_token"),
                         id_token |->
                             getOptionalString(json.value.o, "id_token")],
              error |-> <<>>]

\* the tokens of the answer are taken as they are, without fallback
getCodexCliAuthRefreshedNoFallback(k, resp, stamp) ==
    LET refreshed == refreshTokens(resp)
    IN  IF ~refreshed.ok THEN [k EXCEPT !.pc = "threw",
                                        !.result = Failure(refreshed.error)]
        ELSE
          LET nextAccessToken == refreshed.token.access_token
              nextRefreshToken == refreshed.token.refresh_token
              nextIdToken == refreshed.token.id_token
              tokens == k.file.o.tokens.o
              tokens1 == [tokens EXCEPT
                            !.access_token = JStr(nextAccessToken),
                            !.refresh_token =
                                IF nextRefreshToken # Undefined
                                THEN JStr(nextRefreshToken) ELSE NoKey]
              tokens2 == IF nextIdToken # Undefined
                         THEN [tokens1 EXCEPT !.id_token = JStr(nextIdToken)]
                         ELSE tokens1
              file == JObj([k.file.o EXCEPT
                              !.tokens = JObj(tokens2),
                              !.last_refresh = JStr(toISOString(stamp))])
              k1 == [k EXCEPT !.file = file,
                              !.nextAccessToken = nextAccessToken,
                              !.nextRefreshToken = nextRefreshToken,
                              !.nextIdToken = nextIdToken]
          IN  IF k.writeBack
              THEN [k1 EXCEPT !.pc = "writeFile"]
              ELSE [k1 EXCEPT !.pc = "returned",
                              !.result =
                                  [t |-> "auth",
                                   accessToken |-> nextAccessToken,
                                   refreshToken |-> nextRefreshToken,
                                   idToken |-> nextIdToken,
                                   expiresAtMs |->
                                       extractJwtExpMs(nextAccessToken)]]

\* ... from the answer of the exchange to the writeback or the return
getCodexCliAuthRefreshed(k, resp, stamp) ==
    LET refreshed == refreshTokens(resp)
    IN  IF ~refreshed.ok THEN throws(k, refreshed.error)
        ELSE
          LET nextAccessToken == refreshed.token.access_token
              nextRefreshToken ==
                  IF refreshed.token.refresh_token # Undefined
                  THEN refreshed.token.refresh_token ELSE k.refreshToken
              nextIdToken ==
                  IF refreshed.token.id_token # Undefined
                  THEN refreshed.token.id_token ELSE k.idToken
              tokens == k.file.o.tokens.o
              tokens1 == [tokens EXCEPT
                            !.access_token = JStr(nextAccessToken),
                            !.refresh_token = JStr(nextRefreshToken)]
              tokens2 == IF nextIdToken # Undefined
                         THEN [tokens1 EXCEPT !.id_token = JStr(nextIdToken)]
                         ELSE tokens1
              file == JObj([k.file.o EXCEPT
                              !.tokens = JObj(tokens2),
                              !.last_refresh = JStr(toISOString(stamp))])
              k1 == [k EXCEPT !.file = file,
                              !.nextAccessToken = nextAccessToken,
                              !.nextRefreshToken = nextRefreshToken,
                              !.nextIdToken = nextIdToken]
          IN  IF k.writeBack
              THEN [k1 EXCEPT !.pc = "writeFile"]
              ELSE returns(k1, CodexCliAuth(nextAccessToken, nextRefreshToken,
                                            nextIdToken,
                                            extractJwtExpMs(nextAccessToken)))

\* ... the return after the writeback
getCodexCliAuthWritten(k) ==
    returns(k, CodexCliAuth(k.nextAccessToken, k.nextRefreshToken,
                            k.nextIdToken, extractJwtExpMs(k.nextAccessToken)))

\* getCodexCliAuth, read-only variant, up to the read of the file
getCodexCliAuthReadOnly(k) ==
    [k EXCEPT !.pc = "readFile", !.variant = "read-only"]

\* the access token is returned whatever its expiry
getCodexCliAuthReadOnlyReadAnyExpiry(k, content, now) ==
    LET read == readJsonFile(content)
        k1 == [k EXCEPT !.content = content, !.now = now]
    IN  IF ~read.ok THEN returns(k1, Unavailable)
        ELSE IF ~isRecord(read.value) THEN returns(k1, Unavailable)
        ELSE IF ~isRecord(read.value.o.tokens) THEN returns(k1, Unavailable)
        ELSE
          LET tokens == read.value.o.tokens
              accessToken == getOptionalString(tokens.o, "access_token")
              expiresAtMs == extractJwtExpMs(accessToken)
              k2 == [k1 EXCEPT !.file = read.value,
                               !.accessToken = accessToken]
          IN  IF accessToken = Undefined THEN returns(k2, Unavailable)
              ELSE returns([k2 EXCEPT !.expiresAtMs = expiresAtMs],
                           CodexCliAuthReadOnly(accessToken, expiresAtMs))

\* ... from the read of the file to the return
getCodexCliAuthReadOnlyRead(k, content, now) ==
    LET read == readJsonFile(content)
        k1 == [k EXCEPT !.content = content, !.now = now]
    IN  IF ~read.ok THEN returns(k1, Unavailable)
        ELSE IF ~isRecord(read.value) THEN returns(k1, Unavailable)
        ELSE IF ~isRecord(read.value.o.tokens) THEN returns(k1, Unavailable)
        ELSE
          LET tokens == read.value.o.tokens
              accessToken == getOptionalString(tokens.o, "access_token")
              expiresAtMs == extractJwtExpMs(accessToken)
              k2 == [k1 EXCEPT !.file = read.value,
                               !.accessToken = accessToken]
          IN  IF accessToken = Undefined THEN returns(k2, Unavailable)
              ELSE IF expiresAtMs # None /\ expiresAtMs[1] <= now
              THEN returns([k2 EXCEPT !.expiresAtMs = expiresAtMs], Unavailable)
              ELSE returns([k2 EXCEPT !.expiresAtMs = expiresAtMs],
                           CodexCliAuthReadOnly(accessToken, expiresAtMs))

----------------------------------------------------------------------------
(* Request headers *)

\* the account id claim of an access token, Undefined when there is none;
\* the two payload segments with an auth claim hold the account ids "acct"
\* and " ", every other payload of the model has no auth claim
getChatGptAccountIdFromAccessToken(accessToken) ==
    LET parts == splitDot(accessToken)
    IN  IF Len(parts) # 3 THEN Undefined
        ELSE IF parts[2] = <<>> THEN Undefined
        ELSE IF parts[2] = <<"eyJodHRwczovL2FwaS5vcGVuYWkuY29tL2F1dGgiOnsiY2hhdGdwdF9hY2NvdW50X2lkIjoiYWNjdCJ9fQ">>
        THEN Str("acct")
        ELSE Undefined

\* Session_id is replaced on every call
applyCodexHeadersFreshSession(headers, apiKey, browser, sessionId) ==
    LET Or(v, d) == IF v # Undefined /\ v # <<>> THEN v ELSE d
        h1 == [headers EXCEPT
                  !["Version"] = Or(@, Str("0.21.0")),
                  !["Openai-Beta"] = Or(@, Str("responses=experimental")),
                  !["Session_id"] = sessionId,
                  !["Originator"] = Or(@, Str("codex_cli_rs"))]
        accountId == IF apiKey # Undefined /\ ~browser
                     THEN getChatGptAccountIdFromAccessToken(apiKey)
                     ELSE Undefined
        h2 == IF accountId # Undefined /\ accountId # <<>>
              THEN [h1 EXCEPT !["Chatgpt-Account-Id"] = accountId]
              ELSE h1
    IN  IF ~browser /\ Or(h2["User-Agent"], <<>>) = <<>>
        THEN [h2 EXCEPT !["User-Agent"] = Str("codex_cli_rs/0.50.0 (pi-mono)")]
        ELSE h2

\* applyCodexHeaders; browser is isProbablyBrowser(), sessionId is what
\* createSessionId() would return
applyCodexHeaders(headers, apiKey, browser, sessionId) ==
    LET Or(v, d) == IF v # Undefined /\ v # <<>> THEN v ELSE d
        h1 == [headers EXCEPT
                  !["Version"] = Or(@, Str("0.21.0")),
                  !["Openai-Beta"] = Or(@, Str("responses=experimental")),
                  !["Session_id"] = Or(@, sessionId),
                  !["Originator"] = Or(@, Str("codex_cli_rs"))]
        accountId == IF apiKey # Undefined /\ ~browser
                     THEN getChatGptAccountIdFromAccessToken(apiKey)
                     ELSE Undefined
        h2 == IF accountId # Undefined /\ accountId # <<>>
              THEN [h1 EXCEPT !["Chatgpt-Account-Id"] = accountId]
              ELSE h1
    IN  IF ~browser /\ Or(h2["User-Agent"], <<>>) = <<>>
        THEN [h2 EXCEPT !["User-Agent"] = Str("codex_cli_rs/0.50.0 (pi-mono)")]
        ELSE h2

----------------------------------------------------------------------------
(* Actions *)

\* the parameters the host may pass
Prompts == {"fix the test", "explain", "review", ""}
Models == {Absent, "", "o3", "o4-mini"}
Sandboxes == {Absent, "read-only", "workspace-write"}
Params == [prompt : Prompts, model : Models, sandbox : Sandboxes]

\* the closure variables at the start of execute()
InitClosure ==
    /\ pc = "idle"
    /\ hasSignal \in BOOLEAN
    /\ aborted = FALSE
    /\ listening = FALSE
    /\ addCount = 0
    /\ abortCalls = 0
    /\ spawnCount = 0
    /\ proc = "none"
    /\ failCode = ""
    /\ exitCode = Null
    /\ killed = FALSE
    /\ kills = <<>>
    /\ delivered = {}
    /\ timer = "none"
    /\ settled = FALSE
    /\ resolved = <<>>
    /\ rejected = <<>>
    /\ attempts = 0
    /\ buffer = <<>>
    /\ stderr = <<>>
    /\ events = <<>>
    /\ lastMessage = <<>>
    /\ updates = <<>>
    /\ pendingOut = <<>>
    /\ writes = 0
    /\ written = <<>>
    /\ received = <<>>
    /\ uncaught = 0
    /\ args = <<>>

\* the processes that call the credential functions
Callers == {1, 2}

\* the values of Date.now()
Times == {1000000, 1000500}

\* access tokens: JWTs with the payloads of the model, and strings that are
\* no JWT
jwt(payloadB64) == <<"h", ".", payloadB64, ".", "g">>

PayloadSegments ==
    {"eyJleHAiOjk5MH0", "eyJleHAiOjEwMDB9", "eyJleHAiOjEwMTB9",
     "eyJleHAiOjExMjB9", "eyJleHAiOjExMjF9", "eyJleHAiOjIwMDB9",
     "eyJleHAiOjExMjAuNX0", "eyJleHAiOjEuMDAwNH0", "eyJleHAiOjB9",
     "eyJleHAiOi01fQ",
     "eyJleHAiOiIxMDEwIn0", "eyJleHAiOjFlOTk5fQ", "e30", "W10", "MTAxMA",
     "bm90IGpzb24", "!"}

AccessTokens ==
    {jwt(p) : p \in PayloadSegments}
      \cup {<<"h", ".", "eyJleHAiOjEwMTB9">>,
            <<"h", ".", ".", "g">>,
            <<"h", ".", "eyJleHAiOjEwMTB9", ".", "g", ".", "x">>,
            <<"opaque">>}

AccessValues ==
    {JStr(a) : a \in AccessTokens} \cup {JStr(<<" ">>), JNum(7, 1), NoKey}

RefreshValues == {NoKey, JStr(<<" ">>), JStr(<<"r0">>)}

IdValues == {NoKey, JStr(<<" ">>), JStr(<<"i0">>)}

\* the credential documents: a tokens block with keys the code knows and one
\* it does not, and top-level keys beside it
Document(access, refresh, id) ==
    JObj([tokens |-> JObj([access_token |-> access,
                           refresh_token |-> refresh,
                           id_token |-> id,
                           account_id |-> JStr(<<"acct">>)]),
          OPENAI_API_KEY |-> JNull,
          last_refresh |-> JStr(<<"1969-12-31T00:00:00.000Z">>)])

Documents ==
    {Document(a, r, i) : a \in AccessValues, r \in RefreshValues, i \in IdValues}

\* what the credential path can hold
Files ==
    {NoFile, Garbage, JArr,
     JObj([tokens |-> NoKey, OPENAI_API_KEY |-> JStr(<<"sk">>),
           last_refresh |-> NoKey]),
     JObj([tokens |-> JStr(<<"t">>), OPENAI_API_KEY |-> JNull,
           last_refresh |-> NoKey])}
      \cup Documents

\* the options of a call
Options ==
    [refreshLeewaySeconds : {None, Some(0 - 5), Some(0), Some(60), Some(120)},
     writeBack : {None, Some(TRUE), Some(FALSE)}]

\* the answers of the token endpoint
TokenBody(access, refresh, id) ==
    JObj([access_token |-> access, refresh_token |-> refresh, id_token |-> id])

Responses ==
    {Rejected, Response(400, Garbage), Response(200, Garbage),
     Response(200, JArr),
     Response(200, TokenBody(NoKey, JStr(<<"r1">>), NoKey)),
     Response(200, TokenBody(JStr(<<" ">>), JStr(<<"r1">>), NoKey))}
      \cup {Response(200, TokenBody(JStr(a), r, i)) :
              a \in {jwt("eyJleHAiOjUwMDB9"), <<"opaque1">>},
              r \in {NoKey, JStr(<<"r1">>)},
              i \in {NoKey, JStr(<<"i1">>), JStr(<<>>)}}

\* no credential call is made
CredOff ==
    /\ disk = NoFile
    /\ tmp = [c \in Callers |-> NoFile]
    /\ call = [c \in Callers |-> [NoCall EXCEPT !.pc = "off"]]

\* one call of execute() with the parameters of a plain request
Init ==
    /\ InitClosure
    /\ params = [prompt |-> "fix the test", model |-> Absent, sandbox |-> Absent]
    /\ plain = <<>>
    /\ hdr = <<>>
    /\ CredOff

\* one call of execute() with any parameters
ArgsInit ==
    /\ InitClosure
    /\ params \in Params
    /\ plain = <<>>
    /\ hdr = <<>>
    /\ CredOff

\* the host calls execute()
Execute ==
    /\ pc = "idle"
    /\ \E sp \in {"ok"} \cup SpawnErrnos : Commit(execute(Cur, sp))

\* the host aborts the signal, before or after execute()
Abort ==
    /\ hasSignal
    /\ ~aborted
    /\ \E r \in KillResults : Commit(fireAbort(Cur, r))

\* the escalation timer expires
TimerFire ==
    /\ timer = "pending"
    /\ \E r \in KillResults : Commit(onTimeout([Cur EXCEPT !.timer = "fired"], r))

\* node reports the failed spawn: 'error' is emitted, the exit code is the
\* negated errno
SpawnError ==
    /\ proc = "spawnfail"
    /\ Commit(onError([Cur EXCEPT !.proc = "exited",
                                  !.exitCode = <<0 - Errno(failCode)>>],
                      failCode))

\* the child writes on stdout
ProcWriteOut ==
    /\ proc = "alive"
    /\ writes < MaxWrites
    /\ \E w \in OutWrites :
          Commit([Cur EXCEPT !.pendingOut = @ \o w,
                             !.written = @ \o w,
                             !.writes = @ + 1])

\* the child writes on stderr and the stderr handler receives it
ProcWriteErr ==
    /\ proc = "alive"
    /\ writes < MaxWrites
    /\ \E w \in ErrWrites :
          Commit(onStderrData([Cur EXCEPT !.writes = @ + 1], w))

\* a chunk of the written stdout bytes reaches the stdout handler
StdoutData ==
    /\ proc \in {"alive", "exited"}
    /\ \E n \in 1..Len(pendingOut) :
          Commit(onStdoutData([Cur EXCEPT !.pendingOut = SubSeq(@, n + 1, Len(@))],
                              SubSeq(pendingOut, 1, n)))

\* the child ends by itself or by a signal other than the tool's SIGKILL
ProcExit ==
    /\ proc = "alive"
    /\ "SIGKILL" \notin delivered
    /\ \E code \in ExitCodes :
          Commit([Cur EXCEPT !.proc = "exited", !.exitCode = code])

\* SIGKILL ends the child
ProcKilled ==
    /\ proc = "alive"
    /\ "SIGKILL" \in delivered
    /\ Commit([Cur EXCEPT !.proc = "exited", !.exitCode = Null])

\* the child has ended and its stdio is drained: 'close' is emitted
Close ==
    /\ proc = "exited"
    /\ pendingOut = <<>>
    /\ Commit(onClose([Cur EXCEPT !.proc = "closed"], exitCode))

Next ==
    \/ Execute
    \/ Abort
    \/ TimerFire
    \/ SpawnError
    \/ ProcWriteOut
    \/ ProcWriteErr
    \/ StdoutData
    \/ ProcExit
    \/ ProcKilled
    \/ Close

Spec == Init /\ [][Next]_vars

\* the command line of every request: execute() up to the spawn
ArgsSpec == ArgsInit /\ [][Execute]_vars

\* the timer and the process events are scheduled fairly, and SIGKILL ends
\* the process
FairSpec ==
    /\ Init
    /\ [][Next]_vars
    /\ WF_vars(TimerFire)
    /\ WF_vars(SpawnError)
    /\ WF_vars(StdoutData)
    /\ WF_vars(ProcKilled)
    /\ WF_vars(Close)

----------------------------------------------------------------------------
(* A child that writes whole lines *)

\* a message, an item event without item, a turn event
StreamLines == {<<"{", b, "\n">> : b \in {"1", "u", "t"}}

\* the child writes one line on stdout
StreamWriteOut ==
    /\ proc = "alive"
    /\ writes < MaxLines
    /\ \E w \in StreamLines :
          Commit([Cur EXCEPT !.pendingOut = @ \o w,
                             !.written = @ \o w,
                             !.writes = @ + 1])

StreamNext ==
    \/ Execute
    \/ SpawnError
    \/ StreamWriteOut
    \/ StdoutData
    \/ ProcExit
    \/ Close

StreamSpec == Init /\ [][StreamNext]_vars

----------------------------------------------------------------------------
(* The two tools fed the same events: every step hands one event to the    *)
(* handler of codex-experimental/index.ts and to that of codex/index.ts.   *)

\* what the child writes on stdout: whole lines, a malformed line, and a
\* last line without newline
EquivWrites == StreamLines \cup {<<"{", "\n">>, <<"{", "2">>}

EquivInit ==
    /\ InitClosure
    /\ params = [prompt |-> "fix the test", model |-> Absent, sandbox |-> Absent]
    /\ CredOff
    /\ plain = Cur
    /\ hdr = <<>>

EquivExecute ==
    /\ pc = "idle"
    /\ plain.pc = "idle"
    /\ \E sp \in {"ok"} \cup SpawnErrnos :
          CommitBoth(execute(Cur, sp), plainExecute(plain, sp))

EquivAbort ==
    /\ hasSignal
    /\ ~aborted
    /\ ~plain.aborted
    /\ \E r \in KillResults :
          CommitBoth(fireAbort(Cur, r), plainFireAbort(plain, r))

EquivTimerFire ==
    /\ timer = "pending"
    /\ plain.timer = "pending"
    /\ \E r \in KillResults :
          CommitBoth(onTimeout([Cur EXCEPT !.timer = "fired"], r),
                     plainOnTimeout([plain EXCEPT !.timer = "fired"], r))

EquivSpawnError ==
    /\ proc = "spawnfail"
    /\ plain.proc = "spawnfail"
    /\ CommitBoth(onError([Cur EXCEPT !.proc = "exited",
                                      !.exitCode = <<0 - Errno(failCode)>>],
                          failCode),
                  plainOnError([plain EXCEPT !.proc = "exited",
                                             !.exitCode = <<0 - Errno(failCode)>>],
                               failCode))

EquivWriteOut ==
    /\ proc = "alive"
    /\ plain.proc = "alive"
    /\ writes < MaxWrites
    /\ \E w \in EquivWrites :
          CommitBoth([Cur EXCEPT !.pendingOut = @ \o w,
                                 !.written = @ \o w,
                                 !.writes = @ + 1],
                     [plain EXCEPT !.pendingOut = @ \o w,
                                   !.written = @ \o w,
                                   !.writes = @ + 1])

EquivWriteErr ==
    /\ proc = "alive"
    /\ plain.proc = "alive"
    /\ writes < MaxWrites
    /\ CommitBoth(onStderrData([Cur EXCEPT !.writes = @ + 1], <<"e">>),
                  plainOnStderrData([plain EXCEPT !.writes = @ + 1], <<"e">>))

EquivStdoutData ==
    /\ proc \in {"alive", "exited"}
    /\ plain.pendingOut = pendingOut
    /\ \E n \in 1..Len(pendingOut) :
          CommitBoth(
              onStdoutData([Cur EXCEPT !.pendingOut = SubSeq(@, n + 1, Len(@))],
                           SubSeq(pendingOut, 1, n)),
              plainOnStdoutData(
                  [plain EXCEPT !.pendingOut = SubSeq(@, n + 1, Len(@))],
                  SubSeq(pendingOut, 1, n)))

EquivProcExit ==
    /\ proc = "alive"
    /\ plain.proc = "alive"
    /\ "SIGKILL" \notin delivered \cup plain.delivered
    /\ \E code \in ExitCodes :
          CommitBoth([Cur EXCEPT !.proc = "exited", !.exitCode = code],
                     [plain EXCEPT !.proc = "exited", !.exitCode = code])

EquivProcKilled ==
    /\ proc = "alive"
    /\ plain.proc = "alive"
    /\ "SIGKILL" \in delivered \cap plain.delivered
    /\ CommitBoth([Cur EXCEPT !.proc = "exited", !.exitCode = Null],
                  [plain EXCEPT !.proc = "exited", !.exitCode = Null])

EquivClose ==
    /\ proc = "exited"
    /\ plain.proc = "exited"
    /\ pendingOut = <<>>
    /\ plain.pendingOut = <<>>
    /\ CommitBoth(onClose([Cur EXCEPT !.proc = "closed"], exitCode),
                  plainOnClose([plain EXCEPT !.proc = "closed"], exitCode))

EquivNext ==
    \/ EquivExecute
    \/ EquivAbort
    \/ EquivTimerFire
    \/ EquivSpawnError
    \/ EquivWriteOut
    \/ EquivWriteErr
    \/ EquivStdoutData
    \/ EquivProcExit
    \/ EquivProcKilled
    \/ EquivClose

EquivSpec == EquivInit /\ [][EquivNext]_vars

----------------------------------------------------------------------------
(* Calls of applyCodexHeaders *)

\* the headers objects a caller may pass: each header absent, empty or set
Headers ==
    [{"Version", "Openai-Beta", "Session_id", "Originator",
      "Chatgpt-Account-Id", "User-Agent"} -> {Undefined, <<>>, Str("own")}]

\* no key, an opaque key, tokens with an account id, with a blank account
\* id, and with an expiry only
ApiKeys ==
    {Undefined, Str("sk-1"), jwt("eyJodHRwczovL2FwaS5vcGVuYWkuY29tL2F1dGgiOnsiY2hhdGdwdF9hY2NvdW50X2lkIjoiYWNjdCJ9fQ"),
     jwt("eyJodHRwczovL2FwaS5vcGVuYWkuY29tL2F1dGgiOnsiY2hhdGdwdF9hY2NvdW50X2lkIjoiICJ9fQ"), jwt("eyJleHAiOjEwMTB9")}

HdrInit ==
    /\ InitClosure
    /\ params = [prompt |-> "fix the test", model |-> Absent, sandbox |-> Absent]
    /\ plain = <<>>
    /\ CredOff
    /\ \E h \in Headers, key \in ApiKeys, b \in BOOLEAN :
          hdr = [headers |-> h, apiKey |-> key, browser |-> b, given |-> h,
                 first |-> h, applied |-> 0]

\* applyCodexHeaders(headers, apiKey) is called on the headers object
ApplyCodexHeaders ==
    /\ hdr.applied < MaxApplies
    /\ \E sessionId \in {Str("sid1"), Str("sid2")} :
          LET h == applyCodexHeaders(hdr.headers, hdr.apiKey, hdr.browser,
                                     sessionId)
          IN  hdr' = [hdr EXCEPT !.headers = h,
                                 !.first = IF hdr.applied = 0 THEN h ELSE @,
                                 !.applied = @ + 1]
    /\ UNCHANGED <<pc, hasSignal, aborted, listening, addCount, abortCalls,
                   spawnCount, proc, failCode, exitCode, killed, kills,
                   delivered, timer, settled, resolved, rejected, attempts,
                   buffer, stderr, events, lastMessage, updates, pendingOut,
                   writes, written, received, uncaught, params, args, plain,
                   credVars>>

HdrSpec == HdrInit /\ [][ApplyCodexHeaders]_vars

----------------------------------------------------------------------------
(* Credential calls *)

\* one process is about to call a credential function on any file
CredInit ==
    /\ InitClosure
    /\ params = [prompt |-> "fix the test", model |-> Absent, sandbox |-> Absent]
    /\ plain = <<>>
    /\ hdr = <<>>
    /\ disk \in Files
    /\ tmp = [c \in Callers |-> NoFile]
    /\ call = [c \in Callers |-> IF c = 1 THEN NoCall
                                 ELSE [NoCall EXCEPT !.pc = "off"]]

\* a process calls the refreshing getCodexCliAuth
GetCodexCliAuth ==
    /\ \E c \in Callers, options \in Options :
          /\ call[c].pc = "idle"
          /\ call' = [call EXCEPT ![c] = getCodexCliAuth(@, options)]
    /\ UNCHANGED <<toolVars, disk, tmp>>

\* a process calls the read-only getCodexCliAuth
GetCodexCliAuthReadOnly ==
    /\ \E c \in Callers :
          /\ call[c].pc = "idle"
          /\ call' = [call EXCEPT ![c] = getCodexCliAuthReadOnly(@)]
    /\ UNCHANGED <<toolVars, disk, tmp>>

\* readJsonFile completes and the call runs on to its next await or return
ReadFile ==
    /\ \E c \in Callers, now \in Times :
          /\ call[c].pc = "readFile"
          /\ call' = [call EXCEPT ![c] =
                        IF @.variant = "refresh"
                        THEN getCodexCliAuthRead(@, disk, now)
                        ELSE getCodexCliAuthReadOnlyRead(@, disk, now)]
    /\ UNCHANGED <<toolVars, disk, tmp>>

\* the token endpoint answers and the call runs on to the writeback or return
FetchResponse ==
    /\ \E c \in Callers, resp \in Responses, stamp \in Times :
          /\ call[c].pc = "fetch"
          /\ stamp >= call[c].now
          /\ call' = [call EXCEPT ![c] =
                        getCodexCliAuthRefreshed([@ EXCEPT !.response = resp],
                                                 resp, stamp)]
    /\ UNCHANGED <<toolVars, disk, tmp>>

\* the text is written to the credential path itself
WriteFileBeginInPlace ==
    /\ \E c \in Callers :
          /\ call[c].pc = "writeFile"
          /\ disk' = Partial
          /\ call' = [call EXCEPT ![c].pc = "writing", ![c].writes = @ + 1]
    /\ UNCHANGED <<toolVars, tmp>>

\* writeJsonFile: mkdir, and writeFile has created the temporary file
WriteFileBegin ==
    /\ \E c \in Callers :
          /\ call[c].pc = "writeFile"
          /\ tmp' = [tmp EXCEPT ![c] = Partial]
          /\ call' = [call EXCEPT ![c].pc = "writing", ![c].writes = @ + 1]
    /\ UNCHANGED <<toolVars, disk>>

\* writeJsonFile: writeFile has written the whole text
WriteFileEnd ==
    /\ \E c \in Callers :
          /\ call[c].pc = "writing"
          /\ tmp' = [tmp EXCEPT ![c] = JSONstringify(call[c].file)]
          /\ call' = [call EXCEPT ![c].pc = "rename"]
    /\ UNCHANGED <<toolVars, disk>>

\* writeJsonFile: rename over the target, and the call returns
Rename ==
    /\ \E c \in Callers :
          /\ call[c].pc = "rename"
          /\ disk' = tmp[c]
          /\ tmp' = [tmp EXCEPT ![c] = NoFile]
          /\ call' = [call EXCEPT ![c] =
                        getCodexCliAuthWritten([@ EXCEPT !.renames = @ + 1])]
    /\ UNCHANGED toolVars

CredNext ==
    \/ GetCodexCliAuth
    \/ GetCodexCliAuthReadOnly
    \/ ReadFile
    \/ FetchResponse
    \/ WriteFileBegin
    \/ WriteFileEnd
    \/ Rename

CredSpec == CredInit /\ [][CredNext]_vars

----------------------------------------------------------------------------
(* Concurrent credential calls *)

\* the document both processes find: the access token expires in 10 s
RaceDocument ==
    Document(JStr(jwt("eyJleHAiOjEwMTB9")), JStr(<<"r0">>), JStr(<<"i0">>))

\* the answers of the token endpoint to the concurrent calls
RaceResponses ==
    {Response(200, TokenBody(JStr(jwt("eyJleHAiOjUwMDB9")), JStr(<<"r1">>),
                             NoKey)),
     Response(200, TokenBody(JStr(<<"opaque1">>), NoKey, JStr(<<"i1">>))),
     Response(400, Garbage)}

\* two processes are about to call a credential function on the same file
RaceInit ==
    /\ InitClosure
    /\ params = [prompt |-> "fix the test", model |-> Absent, sandbox |-> Absent]
    /\ plain = <<>>
    /\ hdr = <<>>
    /\ disk = RaceDocument
    /\ tmp = [c \in Callers |-> NoFile]
    /\ call = [c \in Callers |-> NoCall]

\* a process calls the refreshing getCodexCliAuth without options
RaceGetCodexCliAuth ==
    /\ \E c \in Callers :
          /\ call[c].pc = "idle"
          /\ call' = [call EXCEPT ![c] =
                        getCodexCliAuth(@, [refreshLeewaySeconds |-> None,
                                            writeBack |-> None])]
    /\ UNCHANGED <<toolVars, disk, tmp>>

\* the token endpoint answers one of the concurrent calls
RaceFetchResponse ==
    /\ \E c \in Callers, resp \in RaceResponses, stamp \in Times :
          /\ call[c].pc = "fetch"
          /\ stamp >= call[c].now
          /\ call' = [call EXCEPT ![c] =
                        getCodexCliAuthRefreshed([@ EXCEPT !.response = resp],
                                                 resp, stamp)]
    /\ UNCHANGED <<toolVars, disk, tmp>>

RaceNext ==
    \/ RaceGetCodexCliAuth
    \/ GetCodexCliAuthReadOnly
    \/ ReadFile
    \/ RaceFetchResponse
    \/ WriteFileBegin
    \/ WriteFileEnd
    \/ Rename

RaceSpec == RaceInit /\ [][RaceNext]_vars

----------------------------------------------------------------------------
(* Properties *)

SettleCalls == Len(resolved) + Len(rejected)

Count(seq, x) == Cardinality({i \in 1..Len(seq) : seq[i] = x})

\* t occurs in s as a contiguous piece
Includes(s, t) ==
    \E i \in 0..(Len(s) - Len(t)) : SubSeq(s, i + 1, i + Len(t)) = t

IsAgentMessage(e) ==
    e.type = "item.completed" /\ e.hasItem /\ e.itemType = "agent_message"

AgentMessages(evs) == {i \in 1..Len(evs) : IsAgentMessage(evs[i])}

NonEmptyAgentMessages(evs) == {i \in AgentMessages(evs) : evs[i].text # <<>>}

Last(S) == CHOOSE i \in S : \A j \in S : j <= i

\* C1: resolve and reject are invoked at most once in total; settled goes
\* from false to true once, never back, and a settlement attempt made after
\* that changes nothing.
C1_SettledOnce ==
    /\ [](SettleCalls <= 1 /\ (settled <=> SettleCalls = 1))
    /\ [][settled => /\ settled'
                     /\ resolved' = resolved
                     /\ rejected' = rejected]_vars

\* a second and third settlement attempt were made: 'error' settled the
\* promise and 'close' came after it
C1_Witness ==
    /\ attempts >= 2
    /\ SettleCalls = 1
    /\ Len(rejected) = 1
    /\ proc = "closed"

\* C2: when execute() is called with an aborted signal, the promise is
\* resolved at once with the aborted outcome, and from then on there is no
\* spawn, no abort listener and no progress callback.
C2_Started ==
    /\ pc = "started"
    /\ settled
    /\ Len(resolved) = 1
    /\ rejected = <<>>
    /\ resolved[1].error = Str("aborted")
    /\ resolved[1].events = <<>>
    /\ resolved[1].exitCode = Null
    /\ resolved[1].streaming = FALSE
    /\ resolved[1].content = Str("Codex execution aborted before start.")
    /\ spawnCount = 0
    /\ proc = "none"
    /\ addCount = 0
    /\ ~listening
    /\ updates = <<>>
    /\ kills = <<>>

C2_AbortedBeforeStart ==
    [][/\ (pc = "idle" /\ hasSignal /\ aborted /\ pc' = "started") => C2_Started'
       /\ C2_Started => C2_Started']_vars

C2_Witness == C2_Started /\ attempts = 1 /\ aborted

\* C3: a cancellation mid-run sends SIGTERM, and when the grace timer expires
\* with the child still running, SIGKILL has been sent exactly once.
C3_ForcefulKillFollows ==
    /\ (abortCalls >= 1 /\ spawnCount = 1) => (kills # <<>> /\ kills[1] = "SIGTERM")
    /\ (timer = "fired" /\ proc = "alive") => Count(kills, "SIGKILL") = 1

\* C4: once the signal is aborted while the child runs, the operation
\* eventually settles.
C4_AbortEventuallySettles ==
    (hasSignal /\ aborted /\ proc = "alive" /\ ~settled) ~> settled

\* C5: a close that settles while the signal is aborted produces the aborted
\* outcome whatever the exit code; a close that settles while it is not
\* aborted never does.
C5_AbortTakesPrecedence ==
    [][(proc = "exited" /\ proc' = "closed" /\ ~settled) =>
         /\ Len(resolved') = 1
         /\ resolved'[1].exitCode = exitCode
         /\ (hasSignal /\ aborted) =>
               /\ resolved'[1].error = Str("aborted")
               /\ resolved'[1].content =
                     Str("Codex execution aborted.\n\nPartial output:\n")
                        \o (IF lastMessage' = <<>> THEN Str("(no output)")
                                                   ELSE lastMessage')
         /\ ~(hasSignal /\ aborted) => resolved'[1].error # Str("aborted")]_vars

\* the signal was aborted and the child then exited with 0 and with 1, with
\* and without a partial message
C5_Witness ==
    /\ proc = "closed"
    /\ aborted
    /\ Len(resolved) = 1
    /\ resolved[1].error = Str("aborted")
    /\ resolved[1].exitCode = <<0>>
    /\ resolved[1].lastMessage = Str("m1")

\* C6: a result without error tag has exit code 0.
C6_SuccessMeansExitZero ==
    \A i \in 1..Len(resolved) :
        resolved[i].error = Undefined => resolved[i].exitCode = <<0>>

\* C7 as stated: after a close with exit code 0 and no abort, when an
\* agent_message item was parsed, the result carries the text of the last
\* agent_message item.
C7_LastAgentMessage ==
    (/\ proc = "closed"
     /\ exitCode = <<0>>
     /\ ~aborted
     /\ AgentMessages(events) # {}) =>
        /\ Len(resolved) = 1
        /\ resolved[1].content = events[Last(AgentMessages(events))].text
        /\ resolved[1].lastMessage = events[Last(AgentMessages(events))].text
        /\ resolved[1].error = Undefined

\* C7 amended: the same for agent_message items with a non-empty text; the
\* result carries the text of the last of those.
C7_LastNonEmptyAgentMessage ==
    (/\ proc = "closed"
     /\ exitCode = <<0>>
     /\ ~aborted
     /\ NonEmptyAgentMessages(events) # {}) =>
        /\ Len(resolved) = 1
        /\ resolved[1].content = events[Last(NonEmptyAgentMessages(events))].text
        /\ resolved[1].lastMessage = events[Last(NonEmptyAgentMessages(events))].text
        /\ resolved[1].error = Undefined

\* two messages were emitted and the process exited with 0
C7_Witness ==
    /\ proc = "closed"
    /\ exitCode = <<0>>
    /\ ~aborted
    /\ Cardinality(NonEmptyAgentMessages(events)) = 2
    /\ Len(resolved) = 1
    /\ resolved[1].content = Str("m2")

\* C8: after a process that ran closes with a non-zero exit status and the
\* signal is not aborted, the promise is resolved, not rejected, with that
\* exit code, the stderr text as error tag, and a text that includes the
\* stderr text and the last message.
C8_FailedOutcome ==
    (/\ proc = "closed"
     /\ failCode = ""
     /\ exitCode \notin {<<0>>, Null}
     /\ ~aborted) =>
        /\ rejected = <<>>
        /\ Len(resolved) = 1
        /\ resolved[1].exitCode = exitCode
        /\ resolved[1].error = stderr
        /\ resolved[1].streaming = FALSE
        /\ Includes(resolved[1].content, stderr)
        /\ Includes(resolved[1].content, lastMessage)
        /\ Includes(resolved[1].content, Str("Codex exited with code "))

\* exit 1 with stderr text, after a message was captured
C8_Witness ==
    /\ proc = "closed"
    /\ exitCode = <<1>>
    /\ ~aborted
    /\ stderr = Str("e")
    /\ lastMessage = Str("m1")
    /\ Len(resolved) = 1
    /\ resolved[1].error = Str("e")

\* C9: addEventListener is called at most once, the listener is not
\* registered once the operation has settled, and an abort after settlement
\* runs no handler.
C9_ListenerRemoved ==
    /\ [](addCount <= 1 /\ (settled => ~listening))
    /\ [][settled => abortCalls' = abortCalls]_vars

\* the signal was aborted after the operation had settled
C9_Witness ==
    /\ settled
    /\ addCount = 1
    /\ aborted
    /\ abortCalls = 0

\* C10: child.kill is not called once the promise has settled.
C10_NoKillAfterSettlement ==
    [][settled => kills' = kills]_vars

----------------------------------------------------------------------------
(* Properties of the event stream *)

IsPrefix(a, b) == Len(a) <= Len(b) /\ SubSeq(b, 1, Len(a)) = a

\* the events a consumer sees in a value it was handed, when the events
\* array is evs
Seen(r, evs) == IF r.live THEN evs ELSE r.events

\* the events of a sequence of lines: one for each line that is not blank
\* and parses
RECURSIVE ParseLines(_)
ParseLines(lines) ==
    IF lines = <<>> THEN <<>>
    ELSE (IF trim(Head(lines)) # <<>> THEN JSONparse(Head(lines)) ELSE <<>>)
            \o ParseLines(Tail(lines))

\* the lines of a text that end with a newline
CompleteLines(text) == SubSeq(split(text), 1, Len(split(text)) - 1)

Kinds(evs) ==
    [i \in 1..Len(evs) |->
        [type |-> evs[i].type, hasItem |-> evs[i].hasItem,
         itemType |-> evs[i].itemType]]

\* C11: once the promise has settled, onUpdate is not called and events and
\* lastMessage do not change.
C11_NothingAfterSettlement ==
    [][settled => /\ updates' = updates
                  /\ events' = events
                  /\ lastMessage' = lastMessage]_vars

\* C12: every progress callback carries streaming = true, exitCode null and
\* the events accumulated up to it, and what the consumer sees in it never
\* changes afterwards; every resolved result carries streaming = false.
C12_ProgressSnapshots ==
    /\ [](/\ \A i \in 1..Len(updates) :
                /\ updates[i].streaming = TRUE
                /\ updates[i].exitCode = Null
                /\ Seen(updates[i], events) # <<>>
                /\ IsPrefix(Seen(updates[i], events), events)
          /\ \A j \in 1..Len(resolved) : resolved[j].streaming = FALSE)
    /\ [][/\ \A i \in 1..Len(updates) :
                Seen(updates'[i], events') = Seen(updates[i], events)
          /\ \A i \in (Len(updates) + 1)..Len(updates') :
                Len(Seen(updates'[i], events')) > Len(events)]_vars

\* two callbacks were issued and the operation resolved
C12_Witness ==
    /\ Len(updates) = 2
    /\ Len(Seen(updates[1], events)) = 1
    /\ Len(events) = 2
    /\ Len(resolved) = 1
    /\ proc = "closed"

\* C13: at close the events are those of the lines of the whole byte stream,
\* wherever the chunk boundaries fell.
C13_ChunkingIndependent ==
    proc = "closed" => events = ParseLines(split(toString(written)))

\* C14: before close the events are exactly those of the complete lines
\* received that parse, in line order, and no exception has escaped.
C14_OneEventPerValidLine ==
    /\ uncaught = 0
    /\ proc # "closed" =>
          /\ events = ParseLines(CompleteLines(received))
          /\ buffer = split(received)[Len(split(received))]

\* a malformed line and then a valid line were received
C14_Witness ==
    /\ proc = "alive"
    /\ received = <<"{", "\n", "{", "1", "\n">>
    /\ Len(events) = 1
    /\ uncaught = 0

\* C15 as stated: when the last event is an agent_message item, lastMessage
\* is its text.
C15_AgentMessageOverwrites ==
    (events # <<>> /\ IsAgentMessage(events[Len(events)])) =>
        lastMessage = events[Len(events)].text

\* C15 amended: the same for an agent_message item with a non-empty text.
C15_NonEmptyAgentMessageOverwrites ==
    (/\ events # <<>>
     /\ IsAgentMessage(events[Len(events)])
     /\ events[Len(events)].text # <<>>) =>
        lastMessage = events[Len(events)].text

\* a message replaced another one
C15_Witness ==
    /\ proc = "alive"
    /\ Len(events) = 2
    /\ events[1].text = Str("m2")
    /\ events[2].text = Str("m1")
    /\ lastMessage = Str("m1")

\* C16: there is one progress callback for every event, and the i-th
\* callback carries the first i events.
C16_EveryEventSurfaced ==
    /\ Len(updates) = Len(events)
    /\ \A i \in 1..Len(updates) :
          Seen(updates[i], events) = SubSeq(events, 1, i)

\* C17: a result produced by the close handler carries the events of all
\* lines received, the final fragment included, nothing the child wrote is
\* left undelivered, and there is one event of the same kind for every valid
\* line the child wrote.
C17_NoOutputLost ==
    (proc = "closed" /\ Len(resolved) = 1) =>
        /\ pendingOut = <<>>
        /\ Seen(resolved[1], events) = ParseLines(split(received))
        /\ Kinds(Seen(resolved[1], events))
              = Kinds(ParseLines(split(toString(written))))

\* the final fragment was a valid line without newline
C17_Witness ==
    /\ proc = "closed"
    /\ Len(resolved) = 1
    /\ buffer = <<"{", "2">>
    /\ Len(Seen(resolved[1], events)) = 2
    /\ Len(updates) = 1

\* C18: a rejection comes without result, and its message is the
\* installation hint for ENOENT, the permission message for EACCES and the
\* generic message for every other failure.
C18_ErrorMessages ==
    Len(rejected) = 1 =>
        /\ resolved = <<>>
        /\ failCode = "ENOENT" =>
              rejected[1] = Str("Codex CLI not found. Install with: npm install -g @openai/codex")
        /\ failCode = "EACCES" =>
              Head(rejected[1]) = "Permission denied running Codex CLI: "
        /\ failCode \notin {"ENOENT", "EACCES"} =>
              Head(rejected[1]) = "Failed to spawn Codex: "

\* the spawn was refused for lack of permission
C18_Witness ==
    /\ failCode = "EACCES"
    /\ Len(rejected) = 1
    /\ Head(rejected[1]) = "Permission denied running Codex CLI: "
    /\ resolved = <<>>

\* C19: --full-auto is on the command line exactly for sandbox
\* workspace-write; without it the command line has -s read-only; there is
\* exactly one -s and the prompt comes last.
C19_CommandLine ==
    spawnCount = 1 =>
        /\ (Count(args, "--full-auto") > 0) <=> (params.sandbox = "workspace-write")
        /\ params.sandbox \in {Absent, "read-only"} =>
              \E i \in 1..(Len(args) - 1) :
                  args[i] = "-s" /\ args[i + 1] = "read-only"
        /\ params.sandbox = "workspace-write" =>
              \E i \in 1..(Len(args) - 1) :
                  args[i] = "-s" /\ args[i + 1] = "workspace-write"
        /\ Count(args, "-s") = 1
        /\ args[Len(args)] = params.prompt

\* a workspace-write request with a model override was spawned
C19_Witness ==
    /\ spawnCount = 1
    /\ params.sandbox = "workspace-write"
    /\ params.model = "o3"
    /\ args = <<"exec", "--json", "--full-auto", "-s", "workspace-write",
                "-m", "o3", params.prompt>>

----------------------------------------------------------------------------
(* Properties of the credential functions *)

\* the leeway of a call in milliseconds, as documented: 120 s unless given,
\* and not below 0
LeewayMs(options) ==
    IF options.refreshLeewaySeconds = None THEN 120000
    ELSE IF options.refreshLeewaySeconds[1] < 0 THEN 0
    ELSE options.refreshLeewaySeconds[1] * 1000

\* a refreshing call that is past the read of the file
Refreshing(k) ==
    k.variant = "refresh" /\ k.pc \notin {"off", "idle", "readFile"}

\* C20: a refreshing call performs the exchange exactly when the expiry of
\* the access token is known, expiry - leeway <= now and the file has a
\* refresh token; an expiry 10 s ahead with leeway 120 s triggers it, one
\* 1000 s ahead does not, an unknown one never does.
C20_RefreshTrigger ==
    \A c \in Callers :
        LET k == call[c]
        IN  Refreshing(k) =>
              /\ k.fetches \in {0, 1}
              /\ (k.fetches = 1) <=>
                    /\ k.expiresAtMs # None
                    /\ k.expiresAtMs[1] - LeewayMs(k.options) <= k.now
                    /\ k.refreshToken # Undefined
              /\ (/\ k.expiresAtMs = Some(k.now + 10000)
                  /\ k.options.refreshLeewaySeconds = Some(120)
                  /\ k.refreshToken # Undefined) => k.fetches = 1
              /\ (/\ k.expiresAtMs = Some(k.now + 1000000)
                  /\ k.options.refreshLeewaySeconds = Some(120)) => k.fetches = 0
              /\ k.expiresAtMs = None => k.fetches = 0

\* the access token expires in 10 s, the leeway is 120 s, the exchange is
\* under way
C20_Witness ==
    \E c \in Callers :
        /\ call[c].pc = "fetch"
        /\ call[c].variant = "refresh"
        /\ call[c].expiresAtMs = Some(call[c].now + 10000)
        /\ call[c].options.refreshLeewaySeconds = Some(120)
        /\ call[c].fetches = 1

\* a JSON value that is a non-blank string
Present(v) == v.t = "s" /\ trim(v.s) # <<>>

\* the string under a key of the tokens block of a document as a reader takes
\* it: Undefined unless it is a non-blank string
TokenOf(doc, key) ==
    IF Present(doc.o.tokens.o[key]) THEN doc.o.tokens.o[key].s ELSE Undefined

\* a file content from which no credential can be read
Unusable(content) ==
    IF content.t # "o" THEN TRUE
    ELSE IF content.o.tokens.t # "o" THEN TRUE
    ELSE ~Present(content.o.tokens.o.access_token)

\* the answers of the token endpoint that make the exchange fail, and those
\* that make it succeed
ExchangeFailed(resp) ==
    /\ resp.t # "none"
    /\ \/ resp.t = "rejected"
       \/ ~resp.ok
       \/ resp.body.t # "o"
       \/ (resp.body.t = "o" /\ ~Present(resp.body.o.access_token))

ExchangeSucceeded(resp) == resp.t = "response" /\ ~ExchangeFailed(resp)

\* a call that has read the file
HasRead(k) == k.pc \notin {"off", "idle", "readFile"}

\* C21: the read-only reader returns no credential for an access token whose
\* expiry is unknown, as for one whose expiry is at or before now.
C21_UnknownExpiryIsInvalid ==
    \A c \in Callers :
        LET k == call[c]
        IN  (/\ k.variant = "read-only"
             /\ k.pc = "returned"
             /\ (k.expiresAtMs = None \/ k.expiresAtMs[1] <= k.now)) =>
                k.result = Unavailable

\* C22: after a refresh with writeback the document on disk differs from the
\* one read at most in tokens.access_token, tokens.refresh_token,
\* tokens.id_token and last_refresh.
C22_OnlyTokenFieldsChange ==
    \A c \in Callers :
        LET k == call[c]
        IN  (k.variant = "refresh" /\ k.renames = 1) =>
              /\ disk.t = "o"
              /\ DOMAIN disk.o = DOMAIN k.content.o
              /\ \A key \in DOMAIN k.content.o \ {"tokens", "last_refresh"} :
                    disk.o[key] = k.content.o[key]
              /\ disk.o.tokens.t = "o"
              /\ DOMAIN disk.o.tokens.o = DOMAIN k.content.o.tokens.o
              /\ \A key \in DOMAIN k.content.o.tokens.o
                             \ {"access_token", "refresh_token", "id_token"} :
                    disk.o.tokens.o[key] = k.content.o.tokens.o[key]

\* the refreshed document is on disk with the keys the code does not know
C22_Witness ==
    \E c \in Callers :
        /\ call[c].renames = 1
        /\ call[c].pc = "returned"
        /\ disk.o.tokens.o.account_id = JStr(<<"acct">>)
        /\ disk.o.OPENAI_API_KEY = JNull
        /\ disk.o.tokens.o.access_token # call[c].content.o.tokens.o.access_token
        /\ disk.o.last_refresh # call[c].content.o.last_refresh

\* C23: when the exchange fails the file is as it was read, no temporary
\* file was written and nothing was renamed.
C23_FailedExchangeLeavesFile ==
    \A c \in Callers :
        LET k == call[c]
        IN  ExchangeFailed(k.response) =>
              /\ disk = k.content
              /\ tmp[c] = NoFile
              /\ k.writes = 0
              /\ k.renames = 0

\* the token endpoint answered 400
C23_Witness ==
    \E c \in Callers :
        /\ call[c].response = Response(400, Garbage)
        /\ call[c].pc = "threw"
        /\ disk = call[c].content
        /\ call[c].writes = 0

\* C24: when the exchange fails the call fails with an error; it returns
\* neither the credential read from the file nor undefined.
C24_FailedExchangeThrows ==
    \A c \in Callers :
        LET k == call[c]
        IN  ExchangeFailed(k.response) =>
              /\ k.pc = "threw"
              /\ k.result.t = "error"

\* the token endpoint answered with a JSON array
C24_Witness ==
    \E c \in Callers :
        /\ call[c].response = Response(200, JArr)
        /\ call[c].fetches = 1
        /\ call[c].result =
              Failure(Str("Codex token refresh returned non-object JSON"))

\* C25: a refreshing call on a usable file that needs no refresh or finds no
\* refresh token makes no exchange, writes nothing and returns the tokens and
\* the expiry read from the file.
C25_NoRefreshReturnsFile ==
    \A c \in Callers :
        LET k == call[c]
            needed == /\ k.expiresAtMs # None
                      /\ k.expiresAtMs[1] - LeewayMs(k.options) <= k.now
        IN  (/\ k.variant = "refresh"
             /\ HasRead(k)
             /\ ~Unusable(k.content)
             /\ (~needed \/ TokenOf(k.content, "refresh_token") = Undefined)) =>
                /\ k.pc = "returned"
                /\ k.fetches = 0
                /\ k.writes = 0
                /\ k.renames = 0
                /\ disk = k.content
                /\ tmp[c] = NoFile
                /\ k.result =
                      CodexCliAuth(TokenOf(k.content, "access_token"),
                                   TokenOf(k.content, "refresh_token"),
                                   TokenOf(k.content, "id_token"),
                                   k.expiresAtMs)

\* an expired access token and no refresh token
C25_Witness ==
    \E c \in Callers :
        /\ call[c].variant = "refresh"
        /\ call[c].pc = "returned"
        /\ call[c].expiresAtMs = Some(990000)
        /\ call[c].content.o.tokens.o.refresh_token = NoKey
        /\ call[c].result.t = "auth"
        /\ call[c].result.accessToken = jwt("eyJleHAiOjk5MH0")
        /\ call[c].fetches = 0

\* C26: after a successful refresh the access token returned is the one of
\* the answer, the refresh token and the ID token are those of the answer or
\* else the prior ones, a token that was present stays present, and after
\* the writeback the file holds the tokens returned.
C26_RefreshedTokens ==
    \A c \in Callers :
        LET k == call[c]
            body == k.response.body.o
            answer(key, prior) ==
                IF Present(body[key]) THEN body[key].s ELSE prior
        IN  (ExchangeSucceeded(k.response) /\ k.pc = "returned") =>
              /\ k.result.t = "auth"
              /\ k.result.accessToken = body.access_token.s
              /\ k.result.refreshToken =
                    answer("refresh_token", TokenOf(k.content, "refresh_token"))
              /\ k.result.idToken =
                    answer("id_token", TokenOf(k.content, "id_token"))
              /\ k.result.refreshToken # Undefined
              /\ TokenOf(k.content, "id_token") # Undefined =>
                    k.result.idToken # Undefined
              /\ k.renames = 1 =>
                    /\ TokenOf(disk, "access_token") = k.result.accessToken
                    /\ TokenOf(disk, "refresh_token") = k.result.refreshToken
                    /\ TokenOf(disk, "id_token") = k.result.idToken

\* the answer had an access token only, and the prior tokens were kept
C26_Witness ==
    \E c \in Callers :
        /\ call[c].pc = "returned"
        /\ call[c].renames = 1
        /\ call[c].response =
              Response(200, TokenBody(JStr(<<"opaque1">>), NoKey, NoKey))
        /\ call[c].result.refreshToken = <<"r0">>
        /\ call[c].result.idToken = <<"i0">>
        /\ TokenOf(disk, "access_token") = <<"opaque1">>
        /\ TokenOf(disk, "refresh_token") = <<"r0">>

\* C28: on a file that is missing, not JSON, not an object, without a tokens
\* object or without a non-blank string access_token, both readers return
\* undefined, make no exchange and write nothing.
C28_UnusableFile ==
    \A c \in Callers :
        LET k == call[c]
        IN  (HasRead(k) /\ Unusable(k.content)) =>
              /\ k.pc = "returned"
              /\ k.result = Unavailable
              /\ k.fetches = 0
              /\ k.writes = 0
              /\ k.renames = 0
              /\ disk = k.content
              /\ tmp[c] = NoFile

\* the refreshing reader found a tokens entry that is no object
C28_Witness ==
    \E c \in Callers :
        /\ call[c].variant = "refresh"
        /\ call[c].pc = "returned"
        /\ call[c].content.t = "o"
        /\ call[c].content.o.tokens = JStr(<<"t">>)
        /\ call[c].result = Unavailable

\* C29: a successful refresh with writeback disabled writes nothing and
\* returns the refreshed tokens; with writeback enabled or not given, the
\* tokens in the file after the call are the tokens returned.
C29_WriteBack ==
    \A c \in Callers :
        LET k == call[c]
        IN  (ExchangeSucceeded(k.response)) =>
              /\ k.options.writeBack = Some(FALSE) =>
                    /\ k.pc = "returned"
                    /\ k.writes = 0
                    /\ k.renames = 0
                    /\ disk = k.content
                    /\ tmp[c] = NoFile
                    /\ k.result.t = "auth"
                    /\ k.result.accessToken = k.response.body.o.access_token.s
              /\ (k.options.writeBack # Some(FALSE) /\ k.pc = "returned") =>
                    /\ k.renames = 1
                    /\ TokenOf(disk, "access_token") = k.result.accessToken
                    /\ TokenOf(disk, "refresh_token") = k.result.refreshToken
                    /\ TokenOf(disk, "id_token") = k.result.idToken

\* a refresh without writeback has returned
C29_Witness ==
    \E c \in Callers :
        /\ call[c].options.writeBack = Some(FALSE)
        /\ call[c].pc = "returned"
        /\ call[c].fetches = 1
        /\ call[c].result.t = "auth"
        /\ call[c].result.accessToken = jwt("eyJleHAiOjUwMDB9")
        /\ TokenOf(disk, "access_token") # call[c].result.accessToken

\* the expiry in milliseconds of the access tokens of the model that have
\* three segments and a payload object with a finite positive exp
ExpectedExpMs(token) ==
    CASE token = jwt("eyJleHAiOjk5MH0") -> Some(990000)
      [] token = jwt("eyJleHAiOjEwMDB9") -> Some(1000000)
      [] token = jwt("eyJleHAiOjEwMTB9") -> Some(1010000)
      [] token = jwt("eyJleHAiOjExMjB9") -> Some(1120000)
      [] token = jwt("eyJleHAiOjExMjF9") -> Some(1121000)
      [] token = jwt("eyJleHAiOjIwMDB9") -> Some(2000000)
      [] token = jwt("eyJleHAiOjUwMDB9") -> Some(5000000)
      [] token = jwt("eyJleHAiOjExMjAuNX0") -> Some(1120500)
      [] token = jwt("eyJleHAiOjEuMDAwNH0") -> Some(1000)
      [] OTHER -> None

\* C30: the decoder gives floor(exp * 1000) for a token of three segments
\* whose payload is a JSON object with a finite positive number exp, and
\* unknown for every other token.
C30_ExpiryDecoder ==
    \A c \in Callers :
        LET k == call[c]
        IN  /\ (HasRead(k) /\ ~Unusable(k.content)) =>
                  k.expiresAtMs = ExpectedExpMs(TokenOf(k.content, "access_token"))
            /\ (k.pc = "returned" /\ ExchangeSucceeded(k.response)) =>
                  k.result.expiresAtMs = ExpectedExpMs(k.result.accessToken)

\* a fractional exp was rounded down
C30_Witness ==
    \E c \in Callers :
        /\ call[c].pc = "returned"
        /\ call[c].accessToken = jwt("eyJleHAiOjEuMDAwNH0")
        /\ call[c].expiresAtMs = Some(1000)

\* the documents the refreshers have put in place so far
Renamed(callers) ==
    {JSONstringify(call[c].file) : c \in {d \in callers : call[d].renames = 1}}

\* C27: the credential path always holds the original document or the whole
\* document of one refresher, every read sees such a document, and a rename
\* leaves the document of the refresher that made it.
C27_AtomicWriteback ==
    /\ [](/\ disk \in {RaceDocument} \cup Renamed(Callers)
          /\ \A c \in Callers :
                HasRead(call[c]) =>
                    call[c].content \in
                        {RaceDocument} \cup Renamed(Callers \ {c}))
    /\ [][\A c \in Callers :
              call'[c].renames > call[c].renames =>
                  disk' = JSONstringify(call[c].file)]_vars

\* both refreshers read the original document and wrote different documents
C27_Witness ==
    /\ call[1].renames = 1
    /\ call[2].renames = 1
    /\ call[1].content = RaceDocument
    /\ call[2].content = RaceDocument
    /\ JSONstringify(call[1].file) # JSONstringify(call[2].file)
    /\ disk = JSONstringify(call[1].file)

----------------------------------------------------------------------------
(* Properties of the invocation as a whole *)

\* C31: lastMessage is the text of the latest agent_message item with a
\* non-empty text among the events, or empty when there is none, and it
\* changes only in a step that appends such an event with that text.
C31_LastMessageInvariant ==
    /\ [](lastMessage =
            IF NonEmptyAgentMessages(events) = {}
            THEN <<>>
            ELSE events[Last(NonEmptyAgentMessages(events))].text)
    /\ [][lastMessage' # lastMessage =>
            \E i \in (Len(events) + 1)..Len(events') :
                /\ IsAgentMessage(events'[i])
                /\ events'[i].text # <<>>
                /\ events'[i].text = lastMessage']_vars

\* a message was followed by an event of another kind
C31_Witness ==
    /\ Len(events) = 2
    /\ events[1].text = Str("m1")
    /\ events[2].type = "turn.started"
    /\ lastMessage = Str("m1")

\* C32: events only grows at its end, each progress callback shows exactly
\* one event more than the callback before it, as an extension of it, and
\* every progress callback shows a prefix of the events of the result.
C32_AppendOnly ==
    /\ [](/\ \A i \in 2..Len(updates) :
                /\ IsPrefix(Seen(updates[i - 1], events),
                            Seen(updates[i], events))
                /\ Len(Seen(updates[i], events))
                      = Len(Seen(updates[i - 1], events)) + 1
          /\ \A j \in 1..Len(resolved) : \A i \in 1..Len(updates) :
                IsPrefix(Seen(updates[i], events), Seen(resolved[j], events)))
    /\ [][IsPrefix(events, events')]_vars

\* C33: after a close with a non-zero exit code and no abort, the result
\* has a non-empty error tag and renderResult takes the error branch for it.
C33_FailedOutcomeTagged ==
    (/\ proc = "closed"
     /\ hasError(exitCode)
     /\ ~wasAborted(Cur)
     /\ Len(resolved) = 1) =>
        /\ resolved[1].error # Undefined
        /\ resolved[1].error # <<>>
        /\ renderResult(resolved[1], FALSE) = Str("[error] Codex: ")

\* what a consumer finds in the details of a progress callback or result
Details(r, evs) ==
    [events |-> Seen(r, evs), exitCode |-> r.exitCode,
     streaming |-> r.streaming, lastMessage |-> r.lastMessage]

\* both tools settled the same way, and treated the child the same way
SameSettlement ==
    /\ Len(plain.resolved) = Len(resolved)
    /\ Len(plain.rejected) = Len(rejected)
    /\ \A i \in 1..Len(resolved) :
          /\ Details(plain.resolved[i], plain.events)
                = Details(resolved[i], events)
          /\ plain.resolved[i].error = resolved[i].error
          /\ plain.resolved[i].content = resolved[i].content
    /\ plain.kills = kills
    /\ plain.timer = timer
    /\ plain.listening = listening

\* C34 as stated: fed the same events, the two tools have issued the same
\* progress callbacks and have settled the promise the same way.
C34_Equivalent ==
    /\ plain.updates = updates
    /\ SameSettlement

\* C34 amended: the progress callbacks are the same in number, order and
\* details; their display text is left out of the comparison.
C34_EquivalentDetails ==
    /\ Len(plain.updates) = Len(updates)
    /\ \A i \in 1..Len(updates) :
          Details(plain.updates[i], plain.events) = Details(updates[i], events)
    /\ SameSettlement

\* a callback was issued, the kill was refused and rejected the promise, and
\* the close handler made a second settlement attempt in both tools
C34_Witness ==
    /\ proc = "closed"
    /\ Len(updates) = 1
    /\ Len(rejected) = 1
    /\ attempts = 2
    /\ plain.attempts = 2
    /\ Len(plain.rejected) = 1
    /\ plain.rejected[1] # rejected[1]

\* C35: the read-only reader makes no exchange and writes nothing, and a
\* credential it returns has an expiry that is unknown or after now.
C35_ReadOnlySafe ==
    \A c \in Callers :
        LET k == call[c]
        IN  k.variant = "read-only" =>
              /\ k.fetches = 0
              /\ k.writes = 0
              /\ k.renames = 0
              /\ tmp[c] = NoFile
              /\ HasRead(k) => disk = k.content
              /\ (k.pc = "returned" /\ k.result # Unavailable) =>
                    /\ k.result.t = "auth"
                    /\ k.result.expiresAtMs = ExpectedExpMs(k.result.accessToken)
                    /\ \/ k.result.expiresAtMs = None
                       \/ k.result.expiresAtMs[1] > k.now

\* the read-only reader found a token that expires exactly now
C35_Witness ==
    \E c \in Callers :
        /\ call[c].variant = "read-only"
        /\ call[c].pc = "returned"
        /\ call[c].expiresAtMs = Some(call[c].now)
        /\ call[c].result = Unavailable
        /\ disk = call[c].content

\* C36: applyCodexHeaders keeps every non-empty Version, Openai-Beta,
\* Session_id, Originator and User-Agent header the caller passed, and a
\* second application with the same key leaves the headers as the first
\* left them.
C36_HeadersKeptAndIdempotent ==
    /\ hdr.applied >= 1 =>
          \A h \in {"Version", "Openai-Beta", "Session_id", "Originator",
                    "User-Agent"} :
              hdr.given[h] \notin {Undefined, <<>>} =>
                  hdr.headers[h] = hdr.given[h]
    /\ hdr.applied >= 2 => hdr.headers = hdr.first

\* applied twice outside a browser to headers with a Version and no
\* Session_id, with a key that carries an account id
C36_Witness ==
    /\ hdr.applied = 2
    /\ ~hdr.browser
    /\ hdr.given["Version"] = Str("own")
    /\ hdr.given["Session_id"] = Undefined
    /\ hdr.given["User-Agent"] = <<>>
    /\ hdr.headers["Session_id"] \in {Str("sid1"), Str("sid2")}
    /\ hdr.headers["Chatgpt-Account-Id"] = Str("acct")
    /\ hdr.headers["User-Agent"] = Str("codex_cli_rs/0.50.0 (pi-mono)")

====
